---- MODULE Spec2Model ----
(***************************************************************************)
(* Model of the client-side interaction layer of pour-haus-concrete:       *)
(*   - the Lenis scroll event fan-out to ScrollTrigger and the reveal      *)
(*     triggers (smooth-scroll.js, animations.js)            SpecTrigger   *)
(*   - the desktop horizontal takeover: pin geometry, scrubbed track       *)
(*     offset, debounced refresh (horizontal-scroll.js)      SpecHScroll   *)
(*   - the page's render loops and the WebGL hero shader life cycle        *)
(*     (main.js, hero-shader.js, the cursor module)          SpecPage      *)
(*   - page start-up: the loader, initAllModules and what each initialiser *)
(*     does with the DOM it finds (main.js, accordion.js,                  *)
(*     horizontal-scroll.js, animations.js)                  SpecBoot      *)
(*   - the scroll engine as configured by initSmoothScroll, and the        *)
(*     anchor links (smooth-scroll.js)                       SpecEngine    *)
(*   - one GSAP ticker frame: lenis.raf, then the velocity-driven skew     *)
(*     (smooth-scroll.js, animations.js)                     SpecMotion    *)
(*   - the per-frame smoothing recurrence of the skew proxy, the cursor    *)
(*     outline and the magnetic pull                         SpecLerp      *)
(*   - the smart header's hide/show decisions (smooth-scroll.js)           *)
(*                                                           SpecHeader    *)
(*   - the magnetic elements' frame loop, and addMagnetic                  *)
(*     (the magnetic module)           SpecMagnetic, SpecAddMagnetic       *)
(*   - the services accordion (accordion.js)                 SpecAccordion *)
(*   - the loading sequence up to initAllModules (main.js)   SpecLoader    *)
(*   - the gallery's progress counter (horizontal-scroll.js) SpecCounter   *)
(*   - the skew after scrolling has stopped (animations.js)  SpecSettle    *)
(* The specifications share one set of variables; each leaves the          *)
(* variables of the other parts at their idle values.                      *)
(***************************************************************************)
EXTENDS Integers, Sequences, FiniteSets

VARIABLES
  \* ---- scroll engine and reveal triggers (animations.js, smooth-scroll.js)
  scroll,            \* lenis.scroll, the authoritative position
  prevScroll,        \* position before the last Lenis tick
  scrollVelocity,    \* animations.js module variable, written by the listener
  revealStart,       \* start offset of each reveal trigger (DOM geometry)
  revealState,       \* registry state of each reveal trigger
  revealSeen,        \* position each trigger was last evaluated at
  enterFired,        \* reveal tweens started by the last tick, per trigger
  leaveBackFired,    \* hide tweens started by the last tick, per trigger
  updateCalls,       \* ScrollTrigger.update calls made by the last tick
  \* ---- horizontal takeover (horizontal-scroll.js, initDesktopScroll)
  trackW,            \* track.scrollWidth
  viewW,             \* window.innerWidth
  pinLength,         \* distance of the pinned trigger's end, "+=<n>"
  tweenEndX,         \* end value of the track's x tween (getScrollAmount())
  pinProgress,       \* trigger progress, in steps of 1/ProgressSteps
  tweenProgress,     \* scrubbed tween progress, same unit
  trackXScaled,      \* track x offset times ProgressSteps
  timers,            \* pending resize timeouts: the ms each has left
  resizeTimeout,     \* the handle kept in resizeTimeout: ms left, -1 undefined
  sinceResize,       \* ms since the most recent resize event (capped), -1 none
  refreshesSinceResize, \* ScrollTrigger.refresh() calls since that event
  lastRefreshGap,    \* sinceResize when refresh() last ran, -1 never
  burstResizes,      \* resize events of the current or last burst (capped)
  \* ---- page render loops and hero shader (main.js, hero-shader.js, cursor)
  pagePhase,         \* "loaded" before initAllModules, "ready" after
  docHidden,         \* document.hidden
  now,               \* Date.now(), in frame periods
  env,               \* the environment read by the initialisers
  shaderExit,        \* where initHeroShader returned
  heroStylePos0,     \* hero.style.position before initHeroShader
  heroStylePos,      \* hero.style.position
  canvasInHero,      \* the shader canvas is a child of #hero
  canvasesCreated,   \* document.createElement("canvas") calls
  shaderListeners,   \* listeners registered by initHeroShader, still attached
  shaderRafPending,  \* pending requestAnimationFrame(render) callbacks
  shaderRafId,       \* rafId of the shader closure: "null", "live" (names the pending request) or "stale"
  shaderIsVisible,   \* isVisible of the shader closure
  startTime,         \* startTime of the shader closure
  uTime,             \* u_time written by the last drawn frame, -1 none
  lastDeltaTime,     \* u_time difference of the last two drawn frames
  lastGapHidden,     \* hidden time between the last two drawn frames
  lastGapWall,       \* wall-clock time between the last two drawn frames
  hiddenAccum,       \* hidden time since the last drawn frame
  lastDrawAt,        \* Date.now() at the last drawn frame
  framesDrawn,       \* frames drawn, capped at 2
  cleanupCalls,      \* calls of the returned cleanup, capped at 2
  rendersAfterCleanup, \* render() runs after cleanup was called, capped
  cursorOn,          \* initCursor got past its early returns
  cursorRafPending,  \* pending requestAnimationFrame(animate) callbacks
  cursorRafId,       \* rafId of the cursor closure: "null", "live" (names the pending request) or "stale"
  cursorIsVisible,   \* isVisible of the cursor closure
  hscrollMode,       \* what initHorizontalScroll initialised
  \* ---- page start-up (main.js, accordion.js, animations.js)
  dom,               \* the elements the initialisers look up
  invoked,           \* initialisers initAllModules has called, in order
  threwAt,           \* the function whose exception ended start-up, or "none"
  handlerThrew,      \* the event listener that threw, or "none"
  activeDot,         \* index of the highlighted dot of the mobile gallery
  hscrollSnap,       \* cards given scroll-snap alignment
  prefersReducedMotion, \* animations.js module variable
  fontsPending,      \* initAnimations waits on document.fonts.ready
  animSets,          \* animation sets initialised: "reduced", "full"
  animEffects,       \* effects those sets have set up
  prefAtReady,       \* the preference when the fonts promise resolved
  \* ---- scroll engine and anchor links (smooth-scroll.js)
  contentLength,     \* the scroll limit
  enginePos,         \* engine position, times PosScale
  animFrom,          \* position the running animation started from (scaled)
  animTo,            \* its target, clamped
  animElapsed,       \* ticks of the animation done, 0..AnimTicks
  animActive,        \* an animation is running
  easeValue,         \* easing value used by the last tick, times EaseScale
  requestsLeft,      \* scroll requests the model still admits
  lastRequestRaw,    \* target of the last request before clamping
  lastHref,          \* href of the last clicked anchor, <<>> none
  clickThrew,        \* the last click listener raised an exception
  clickScrollTo,     \* the last click listener called lenis.scrollTo
  \* ---- velocity-driven skew (animations.js, initVelocityBlur)
  skewNum,           \* motionProxy.skew times SkewDen * 25^skewFrames
  skewFrames,        \* ticker frames run
  targetNum,         \* targetSkew of the last frame, times SkewDen
  velocityRead,      \* scrollVelocity as read by the last skew callback
  styleWrites,       \* element style writes made by the last skew callback
  \* ---- the smoothing recurrence on its own
  lerpKind,          \* which smoothed value: "skew", "outline", "magnetic"
  lerpTarget,        \* the current target
  lerpNum,           \* the value times RateDen^lerpN
  lerpN,             \* frames run
  lerpSteady,        \* the target has been the same since frame 0
  \* ---- the engine's measured length (animations.js, the refresh listener)
  lenisLimit,        \* scrollable length lenis.resize() last measured
  lenisResizes,      \* lenis.resize() calls since the last resize event
  \* ---- smart header (smooth-scroll.js, initSmartHeader)
  lastScrollY,       \* lastScrollY of the header closure
  isHidden,          \* isHidden of the header closure
  ticking,           \* ticking of the header closure
  headerRafQueue,    \* samples held by the pending frame callbacks
  samplesThisFrame,  \* handleScroll calls made by the last frame
  lastSample,        \* the sample handleScroll last processed, -1 none
  prevLastScrollY,   \* lastScrollY before that call
  prevIsHidden,      \* isHidden before that call
  \* ---- magnetic elements (the premium magnetic module)
  magClosures,       \* the closures initMagnetic created, one per forEach pass
  magneticEls,       \* the [data-magnetic] elements, in document order
  magTransforms,     \* per element: which of it and its children carry x/y props
  pointerEventsLeft, \* pointer events the model still admits
  addMagneticCalls,  \* calls of addMagnetic
  \* ---- accordion (accordion.js)
  activeItems,       \* accordion items with class "active"
  ariaExpanded,      \* items whose header has aria-expanded = "true"
  ariaShown,         \* items whose content has aria-hidden = "false"
  accContent,        \* items that have an .accordion-content child
  accFocus,          \* index of the focused header, -1: none
  lastToggle,        \* the last toggleAccordion call: item and its class before
  \* ---- loading sequence (main.js, initLoader)
  initAllModulesCalls, \* calls of initAllModules
  fontsResolved,     \* document.fonts.ready has resolved
  imgCount,          \* criticalImages.length
  imgLoaded,         \* loaded of loadCriticalImages
  imgWaiting,        \* critical images whose load or error event is still to come
  imagesResolved,    \* the promise of loadCriticalImages has resolved
  fallbackArmed,     \* the 3000 ms fallback timeout is pending
  gaugeStarted,      \* the then-callback of Promise.all has run
  gaugeFrames,       \* pending requestAnimationFrame(animatePSI) callbacks
  gaugeNow,          \* frame timestamp, in gauge ticks
  psiStart,          \* startTime of initLoader, -1: null
  psiProgress,       \* progress of the last animatePSI frame, in gauge ticks
  currentPSI,        \* psiDisplay.textContent
  prevPSI,           \* psiDisplay.textContent before the last frame
  \* ---- scroll counter of the takeover (horizontal-scroll.js)
  counterOpacity,    \* counter.style.opacity
  counterState,      \* state of the counter's trigger: Before, Active, After
  counterStart,      \* scroll position at which the section's top meets the viewport's
  counterCards,      \* totalCards
  counterIndex,      \* number shown in the counter's .current span
  \* ---- the skew after scrolling stops (animations.js, initVelocityBlur)
  settleSkew,        \* motionProxy.skew, in 1/SkewUnits degree
  settleTransform,   \* style.transform of every motion target: "skewY" or ""
  settleEventsLeft,  \* scroll events the model still admits
  settleReturned,    \* last value getScrollVelocity returned
  settleWasSkewed    \* some frame has written a skewY transform

varsTrigger == <<scroll, prevScroll, scrollVelocity, revealStart, revealState,
                 revealSeen, enterFired, leaveBackFired, updateCalls>>
varsHScroll == <<trackW, viewW, pinLength, tweenEndX, pinProgress,
                 tweenProgress, trackXScaled, timers, resizeTimeout,
                 sinceResize, refreshesSinceResize, lastRefreshGap,
                 burstResizes>>
varsShader == <<shaderExit, heroStylePos0, heroStylePos, canvasInHero,
                canvasesCreated, shaderListeners, shaderRafPending,
                shaderRafId, shaderIsVisible, startTime, uTime, lastDeltaTime,
                lastGapHidden, lastGapWall, hiddenAccum, lastDrawAt,
                framesDrawn, cleanupCalls,
                rendersAfterCleanup>>
varsCursor == <<cursorOn, cursorRafPending, cursorRafId, cursorIsVisible>>
varsPage == <<pagePhase, docHidden, now, env, varsShader, varsCursor,
              hscrollMode>>
varsBoot == <<dom, invoked, threwAt, handlerThrew, activeDot, hscrollSnap,
              prefersReducedMotion, fontsPending, animSets, animEffects,
              prefAtReady>>
varsEngine == <<contentLength, enginePos, animFrom, animTo, animElapsed,
                animActive, easeValue, requestsLeft, lastRequestRaw,
                lastHref, clickThrew, clickScrollTo>>
varsMotion == <<skewNum, skewFrames, targetNum, velocityRead, styleWrites>>
varsLerp == <<lerpKind, lerpTarget, lerpNum, lerpN, lerpSteady>>
varsAux == <<varsEngine, varsMotion, varsLerp>>
varsExt == <<lenisLimit, lenisResizes, lastScrollY, isHidden, ticking,
             headerRafQueue, samplesThisFrame, lastSample, prevLastScrollY,
             prevIsHidden, magClosures, magneticEls, magTransforms,
             pointerEventsLeft, addMagneticCalls, activeItems, ariaExpanded,
             ariaShown, accContent, accFocus, lastToggle,
             initAllModulesCalls, fontsResolved, imgCount, imgLoaded,
             imgWaiting, imagesResolved, fallbackArmed, gaugeStarted,
             gaugeFrames, gaugeNow, psiStart, psiProgress, currentPSI,
             prevPSI, counterOpacity, counterState, counterStart,
             counterCards, counterIndex, settleSkew, settleTransform,
             settleEventsLeft, settleReturned, settleWasSkewed>>
vars == <<varsTrigger, varsHScroll, varsPage, varsBoot, varsAux, varsExt>>

Max(a, b) == IF a >= b THEN a ELSE b
Min(a, b) == IF a <= b THEN a ELSE b
Abs(a) == IF a >= 0 THEN a ELSE -a

(***************************************************************************)
(* Bounds of the model.                                                    *)
(***************************************************************************)
MaxScroll == 4       \* scroll positions 0..MaxScroll
NumReveals == 2      \* [data-reveal] elements outside #hero

(***************************************************************************)
(* Scroll-Trigger registry (gsap ScrollTrigger; the library is not in the  *)
(* repository, its behaviour is taken from the specification, 4.2).        *)
(***************************************************************************)
Reveals == 1..NumReveals

\* Events one ScrollTrigger.update() fires for a trigger with a start and no
\* end: onEnter when the position passes the start moving forward while
\* Before, onLeaveBack when it recedes past the start while Active, and the
\* scrub callback onUpdate when the position moved inside the region.
TriggerEvents(state, seen, start, pos) ==
  IF state = "Before" /\ pos > start THEN <<"onEnter", "onUpdate">>
  ELSE IF state = "Active" /\ pos <= start THEN <<"onUpdate", "onLeaveBack">>
  ELSE IF state = "Active" /\ pos # seen THEN <<"onUpdate">>
  ELSE <<>>

TriggerState(state, start, pos) ==
  IF pos > start THEN "Active" ELSE "Before"

(***************************************************************************)
(* animations.js: the reveal trigger's callbacks, and the two Lenis        *)
(* "scroll" listeners in the order initAllModules registers them.          *)
(***************************************************************************)
\* Faulty variant: the reveal tween is registered as the per-update callback.
RevealHandlersOnUpdate ==
  [onEnter |-> "none", onLeaveBack |-> "hide", onUpdate |-> "reveal"]

RevealHandlers ==
  [onEnter |-> "reveal", onLeaveBack |-> "hide", onUpdate |-> "none"]

ScrollListeners == <<"ScrollTrigger.update", "velocityAndUpdate">>

\* Number of times tween `what` is started by the events in `evs`.
RECURSIVE CountStarts(_, _)
CountStarts(evs, what) ==
  IF evs = <<>> THEN 0
  ELSE (IF RevealHandlers[Head(evs)] = what THEN 1 ELSE 0)
       + CountStarts(Tail(evs), what)

\* The registry after running the listeners `ls` in order at position pos.
\* Both listeners call ScrollTrigger.update(); the second first writes
\* scrollVelocity.  reg = [state, seen, enter, back, calls, vel].
RECURSIVE RunListeners(_, _, _, _)
RunListeners(ls, reg, pos, velocity) ==
  IF ls = <<>> THEN reg
  ELSE
    LET evs == [i \in Reveals |->
                  TriggerEvents(reg.state[i], reg.seen[i], revealStart[i], pos)]
        reg2 == [state |-> [i \in Reveals |->
                              TriggerState(reg.state[i], revealStart[i], pos)],
                 seen  |-> [i \in Reveals |-> pos],
                 enter |-> [i \in Reveals |->
                              reg.enter[i] + CountStarts(evs[i], "reveal")],
                 back  |-> [i \in Reveals |->
                              reg.back[i] + CountStarts(evs[i], "hide")],
                 calls |-> reg.calls + 1,
                 vel   |-> IF Head(ls) = "velocityAndUpdate"
                           THEN velocity ELSE reg.vel]
    IN RunListeners(Tail(ls), reg2, pos, velocity)

\* lenis.raf moves the position to p and emits "scroll" to the listeners.
LenisEmit(p) ==
  LET reg0 == [state |-> revealState, seen |-> revealSeen,
               enter |-> [i \in Reveals |-> 0],
               back  |-> [i \in Reveals |-> 0],
               calls |-> 0, vel |-> scrollVelocity]
      reg == RunListeners(ScrollListeners, reg0, p, p - scroll)
  IN /\ prevScroll' = scroll
     /\ scroll' = p
     /\ scrollVelocity' = reg.vel
     /\ revealState' = reg.state
     /\ revealSeen' = reg.seen
     /\ enterFired' = reg.enter
     /\ leaveBackFired' = reg.back
     /\ updateCalls' = reg.calls
     /\ UNCHANGED revealStart

\* One scroll-engine tick (lenis.raf on the GSAP ticker): the position moves
\* to p and the "scroll" event is emitted to the listeners.
LenisTick(p) ==
  /\ LenisEmit(p)
  /\ UNCHANGED <<varsHScroll, varsPage, varsBoot, varsAux,
                 varsExt>>


(***************************************************************************)
(* Horizontal takeover, desktop mode (horizontal-scroll.js).               *)
(***************************************************************************)
MaxWidth == 3        \* widths 0..MaxWidth
ProgressSteps == 2   \* progress is k/ProgressSteps, k in 0..ProgressSteps
ClockStepMs == 100   \* granularity of the clock
BurstCap == 2        \* resize events counted per burst (the cap means "more")
ResizeDebounceMs == 250

\* Faulty variant: the viewport width is not subtracted.
getScrollAmountFullTrack == -trackW

\* const getScrollAmount = () => -(track.scrollWidth - window.innerWidth)
getScrollAmount == -(trackW - viewW)

\* end: () => `+=${track.scrollWidth - window.innerWidth}`
PinEndDistance == trackW - viewW

\* gsap.to(track, {x: getScrollAmount, ease: "none"}): the tween renders x
\* at progress p/ProgressSteps, linearly from 0 to endX (times ProgressSteps).
TweenRender(endX, p) == 0 * (ProgressSteps - p) + endX * p

\* Faulty variant: the pending timeout is not cleared before a new one is set.
ResizeHandlerTimersNoClear(ts, handle) == ts \cup {ResizeDebounceMs}

\* The resize listener: clearTimeout(resizeTimeout); resizeTimeout =
\* setTimeout(refresh, 250).  The pending timeouts after it.
ResizeHandlerTimers(ts, handle) == (ts \ {handle}) \cup {ResizeDebounceMs}

PageLength == 2      \* scrollable length of the page without the pin spacer

\* The document's scrollable length: the page plus the spacer the pinned
\* trigger inserts for its pin interval.
DocumentLength(pin) == PageLength + Max(pin, 0)

\* Faulty variant: nothing listens to the registry's "refresh" event.
RefreshListenersNone == <<>>

\* ScrollTrigger.addEventListener("refresh", () => lenis.resize())
RefreshListeners == <<"lenis.resize">>

\* lenis.resize() calls made by the listeners of one "refresh" event.
ResizeCallsPerRefresh ==
  Cardinality({i \in 1..Len(RefreshListeners) :
                 RefreshListeners[i] = "lenis.resize"})

\* The engine's limit after ScrollTrigger.refresh() laid out a pin of length
\* pin and emitted "refresh": lenis.resize() measures the document again.
LimitAfterRefresh(limit, pin) ==
  IF ResizeCallsPerRefresh > 0 THEN DocumentLength(pin) ELSE limit

\* A window resize event: the layout changes and the listener runs.
Resize(w, v) ==
  /\ trackW' = w
  /\ viewW' = v
  /\ timers' = ResizeHandlerTimers(timers, resizeTimeout)
  /\ resizeTimeout' = ResizeDebounceMs
  /\ sinceResize' = 0
  /\ refreshesSinceResize' = 0
  /\ burstResizes' = IF timers = {} THEN 1
                     ELSE Min(burstResizes + 1, BurstCap)
  /\ lenisResizes' = 0
  /\ UNCHANGED <<pinLength, tweenEndX, pinProgress, tweenProgress,
                 trackXScaled, lastRefreshGap, lenisLimit>>
  /\ UNCHANGED <<varsTrigger, varsPage, varsBoot, varsAux, lastScrollY,
                 isHidden, ticking, headerRafQueue, samplesThisFrame,
                 lastSample, prevLastScrollY, prevIsHidden, magClosures,
                 magneticEls, magTransforms, pointerEventsLeft,
                 addMagneticCalls, activeItems, ariaExpanded, ariaShown,
                 accContent, accFocus, lastToggle, initAllModulesCalls,
                 fontsResolved, imgCount, imgLoaded, imgWaiting,
                 imagesResolved, fallbackArmed, gaugeStarted, gaugeFrames,
                 gaugeNow, psiStart, psiProgress, currentPSI, prevPSI,
                 counterOpacity, counterState, counterStart, counterCards,
                 counterIndex, settleSkew, settleTransform, settleEventsLeft,
                 settleReturned, settleWasSkewed>>

\* Time passes: every pending timeout gets closer to due; a due timeout
\* stays due until the event loop runs it.
AdvanceClock ==
  /\ timers # {} \/ (sinceResize # -1 /\ sinceResize < ResizeDebounceMs)
  /\ timers' = {Max(t - ClockStepMs, 0) : t \in timers}
  /\ resizeTimeout' = IF resizeTimeout > 0
                      THEN Max(resizeTimeout - ClockStepMs, 0)
                      ELSE resizeTimeout
  /\ sinceResize' = IF sinceResize = -1 THEN -1
                    ELSE Min(sinceResize + ClockStepMs,
                             ResizeDebounceMs + ClockStepMs)
  /\ UNCHANGED <<trackW, viewW, pinLength, tweenEndX, pinProgress,
                 tweenProgress, trackXScaled, refreshesSinceResize,
                 lastRefreshGap, burstResizes>>
  /\ UNCHANGED <<varsTrigger, varsPage, varsBoot, varsAux,
                 varsExt>>

\* A due timeout runs: ScrollTrigger.refresh() measures the geometry again
\* (end is a function, and invalidateOnRefresh re-reads getScrollAmount),
\* then emits "refresh" to its listeners.
ResizeTimerFires ==
  /\ 0 \in timers
  /\ timers' = timers \ {0}
  /\ pinLength' = PinEndDistance
  /\ tweenEndX' = getScrollAmount
  /\ trackXScaled' = TweenRender(getScrollAmount, tweenProgress)
  /\ refreshesSinceResize' = Min(refreshesSinceResize + 1, BurstCap)
  /\ lastRefreshGap' = sinceResize
  /\ lenisLimit' = LimitAfterRefresh(lenisLimit, PinEndDistance)
  /\ lenisResizes' = Min(lenisResizes + ResizeCallsPerRefresh, BurstCap)
  /\ UNCHANGED <<trackW, viewW, pinProgress, tweenProgress, resizeTimeout,
                 sinceResize, burstResizes>>
  /\ UNCHANGED <<varsTrigger, varsPage, varsBoot, varsAux, lastScrollY,
                 isHidden, ticking, headerRafQueue, samplesThisFrame,
                 lastSample, prevLastScrollY, prevIsHidden, magClosures,
                 magneticEls, magTransforms, pointerEventsLeft,
                 addMagneticCalls, activeItems, ariaExpanded, ariaShown,
                 accContent, accFocus, lastToggle, initAllModulesCalls,
                 fontsResolved, imgCount, imgLoaded, imgWaiting,
                 imagesResolved, fallbackArmed, gaugeStarted, gaugeFrames,
                 gaugeNow, psiStart, psiProgress, currentPSI, prevPSI,
                 counterOpacity, counterState, counterStart, counterCards,
                 counterIndex, settleSkew, settleTransform, settleEventsLeft,
                 settleReturned, settleWasSkewed>>

\* The page scrolls inside the pinned interval: the trigger's progress.
PinScroll(k) ==
  /\ k # pinProgress
  /\ pinProgress' = k
  /\ UNCHANGED <<trackW, viewW, pinLength, tweenEndX, tweenProgress,
                 trackXScaled, timers, resizeTimeout, sinceResize,
                 refreshesSinceResize, lastRefreshGap, burstResizes>>
  /\ UNCHANGED <<varsTrigger, varsPage, varsBoot, varsAux,
                 varsExt>>

\* scrub: 1 -- the tween's progress catches up with the trigger's progress
\* over the following frames, and the track is rendered at it.
ScrubStep ==
  /\ tweenProgress # pinProgress
  /\ tweenProgress' = IF tweenProgress < pinProgress
                      THEN tweenProgress + 1 ELSE tweenProgress - 1
  /\ trackXScaled' = TweenRender(tweenEndX, tweenProgress')
  /\ UNCHANGED <<trackW, viewW, pinLength, tweenEndX, pinProgress, timers,
                 resizeTimeout, sinceResize, refreshesSinceResize,
                 lastRefreshGap, burstResizes>>
  /\ UNCHANGED <<varsTrigger, varsPage, varsBoot, varsAux,
                 varsExt>>


(***************************************************************************)
(* Page: initAllModules (main.js), the hero shader (hero-shader.js) and    *)
(* the cursor follower (the premium cursor module).                        *)
(***************************************************************************)
MaxClock == 4        \* Date.now() runs over 0..MaxClock frame periods

MobileMaxWidthPx == 768
NumCards == 2        \* .h-scroll-card elements of a gallery that has cards

\* Viewport widths on both sides of the "(max-width: 768px)" query.
ViewportWidths == {MobileMaxWidthPx, MobileMaxWidthPx + 1}

Envs == [reducedMotion : BOOLEAN, hero : BOOLEAN, heroPos : {"", "absolute"},
         testGL : BOOLEAN, ctxGL : BOOLEAN, compileOK : BOOLEAN,
         linkOK : BOOLEAN, touch : BOOLEAN, innerWidth : ViewportWidths]

NoEnv == [reducedMotion |-> FALSE, hero |-> FALSE, heroPos |-> "",
          testGL |-> FALSE, ctxGL |-> FALSE, compileOK |-> FALSE,
          linkOK |-> FALSE, touch |-> FALSE,
          innerWidth |-> MobileMaxWidthPx + 1]

\* The elements the initialisers look up: #loader; #cursor, absent, without
\* its .cursor-dot/.cursor-outline children ("bare") or complete; whether
\* every .accordion-item has an .accordion-header; the gallery's section,
\* container and track, absent, without cards ("empty") or with cards.
Doms == [loader : BOOLEAN, cursor : {"absent", "bare", "full"},
         headers : BOOLEAN, hscroll : {"absent", "empty", "cards"}]

FullDom == [loader |-> TRUE, cursor |-> "full", headers |-> TRUE,
            hscroll |-> "cards"]

NoDom == [loader |-> FALSE, cursor |-> "absent", headers |-> TRUE,
          hscroll |-> "absent"]

\* track.querySelectorAll(".h-scroll-card")
Cards(d) == IF d.hscroll = "cards" THEN 1..NumCards ELSE {}

\* Faulty variant: the reduced-motion preference is not consulted.
ShaderInitExitIgnoringMotion(e) ==
  IF ~e.hero THEN "noHero"
  ELSE IF ~e.testGL THEN "noWebGL"
  ELSE IF ~e.ctxGL THEN "noContext"
  ELSE IF ~e.compileOK THEN "shaderError"
  ELSE IF ~e.linkOK THEN "linkError"
  ELSE "running"

\* The return statement initHeroShader reaches in environment e.  Every
\* exit but "running" returns null; "running" returns the cleanup function.
ShaderInitExit(e) ==
  IF e.reducedMotion THEN "reducedMotion"
  ELSE IF ~e.hero THEN "noHero"
  ELSE IF ~e.testGL THEN "noWebGL"
  ELSE IF ~e.ctxGL THEN "noContext"
  ELSE IF ~e.compileOK THEN "shaderError"
  ELSE IF ~e.linkOK THEN "linkError"
  ELSE "running"

\* Exits behind the capability checks, and those among them that come after
\* the canvas was inserted into #hero (hero-shader.js lines 54-55).
CapabilityExits == {"noWebGL", "noContext", "shaderError", "linkError"}
ExitsAfterInsert == {"noContext", "shaderError", "linkError", "running"}

\* document.createElement("canvas") calls made before the exit.
CanvasesCreatedAt(exit) ==
  IF exit \in {"reducedMotion", "noHero"} THEN 0
  ELSE IF exit = "noWebGL" THEN 1
  ELSE 2

\* hero.style.position after initHeroShader returned at `exit`.
HeroStyleAt(exit, before) ==
  IF exit \in ExitsAfterInsert THEN "relative" ELSE before

\* Listeners attached when initHeroShader ran to its end (lenis is passed by
\* initAllModules).
ShaderListenersAt(exit) ==
  IF exit = "running"
  THEN {"lenisScroll", "visibilitychange", "resize", "mousemove"}
  ELSE {}

\* window.matchMedia("(max-width: 768px)").matches
IsMobile(e) == e.innerWidth <= MobileMaxWidthPx

\* Faulty variant: native scrolling only when narrow and touch-capable.
HorizontalModeBothRequired(e, d) ==
  IF d.hscroll = "absent" THEN "none"
  ELSE IF IsMobile(e) /\ e.touch THEN "mobile" ELSE "desktop"

\* initHorizontalScroll: the mode it initialises; none when the section,
\* the container or the track is missing.
HorizontalMode(e, d) ==
  IF d.hscroll = "absent" THEN "none"
  ELSE IF IsMobile(e) \/ e.touch THEN "mobile" ELSE "desktop"

\* The calls of initAllModules, in order.
ModuleOrder ==
  <<"initSmoothScroll", "initAnimations", "initCursor", "initMagnetic",
    "initAccordion", "initHorizontalScroll", "initMobileMenu",
    "initHeroShader">>

\* The initialiser raises a TypeError: initCursor calls animate(), which
\* writes cursorDot.style and cursorOutline.style, and initAccordion calls
\* header.setAttribute, each on the result of a querySelector that is null
\* when the element is missing.
InitThrows(name, e, d) ==
  \/ name = "initCursor" /\ ~e.touch /\ d.cursor = "bare"
  \/ name = "initAccordion" /\ ~d.headers

\* The initialisers called, up to and including the first that throws:
\* initAllModules has no try/catch around its calls.
RECURSIVE InvokedBy(_, _, _)
InvokedBy(order, e, d) ==
  IF order = <<>> THEN <<>>
  ELSE IF InitThrows(Head(order), e, d) THEN <<Head(order)>>
  ELSE <<Head(order)>> \o InvokedBy(Tail(order), e, d)

WasInvoked(inv, name) == \E i \in 1..Len(inv) : inv[i] = name

\* The function that ended the call sequence, "none" when it ran through.
ThrowerOf(inv, e, d) ==
  IF inv # <<>> /\ InitThrows(inv[Len(inv)], e, d) THEN inv[Len(inv)]
  ELSE "none"

\* Faulty variant: the value read when initAnimations was called is used.
AnimationSetAtCall(current, atCall) == IF atCall THEN "reduced" ELSE "full"

\* initAnimations, after document.fonts.ready: the set it initialises, from
\* the current value of prefersReducedMotion.
AnimationSetFor(current, atCall) == IF current THEN "reduced" ELSE "full"

\* What each set sets up: initReducedMotionAnimations, and the six
\* initialisers of the full set.
EffectsOf(set) ==
  IF set = "reduced" THEN {"revealFade", "heroHeadlineFade"}
  ELSE {"heroOrchestration", "revealBlurOffset", "parallax", "velocitySkew",
        "footerInvert", "scrollProgress"}

\* The tween a [data-reveal] trigger starts on enter, and whether the
\* trigger hides the element again on leave-back.
RevealOnEnter(set) ==
  IF set = "reduced"
  THEN [props |-> {"opacity"}, durationMs |-> {300}, leaveBack |-> FALSE]
  ELSE [props |-> {"y", "opacity", "filter"}, durationMs |-> {900, 1200},
        leaveBack |-> TRUE]

\* initAllModules, run once by the loader in environment e on the DOM d:
\* the initialisers are called in order until one throws.  initAnimations
\* reads the motion preference and waits for the fonts; initCursor returns
\* early on touch devices and without #cursor; animate() and render() are
\* each called once synchronously and request their next frame.
InitAllModules(e, d) ==
  /\ pagePhase = "loaded"
  /\ env' = e
  /\ dom' = d
  /\ LET inv == InvokedBy(ModuleOrder, e, d)
         thr == ThrowerOf(inv, e, d)
         cur == WasInvoked(inv, "initCursor") /\ ~e.touch /\ d.cursor = "full"
         mode == IF WasInvoked(inv, "initHorizontalScroll")
                 THEN HorizontalMode(e, d) ELSE "none"
         exit == IF WasInvoked(inv, "initHeroShader")
                 THEN ShaderInitExit(e) ELSE "uninit"
     IN /\ invoked' = inv
        /\ threwAt' = thr
        /\ pagePhase' = IF thr = "none" THEN "ready" ELSE "initFailed"
        /\ prefersReducedMotion' = IF WasInvoked(inv, "initAnimations")
                                   THEN e.reducedMotion
                                   ELSE prefersReducedMotion
        /\ fontsPending' = WasInvoked(inv, "initAnimations")
        /\ cursorOn' = cur
        /\ cursorRafPending' = IF cur THEN 1 ELSE 0
        /\ cursorRafId' = IF cur THEN "live" ELSE "null"
        /\ cursorIsVisible' = TRUE
        /\ hscrollMode' = mode
        /\ hscrollSnap' = IF mode = "mobile" THEN Cards(d) ELSE {}
        /\ shaderExit' = exit
        /\ heroStylePos0' = e.heroPos
        /\ heroStylePos' = HeroStyleAt(exit, e.heroPos)
        /\ canvasInHero' = (exit = "running")
        /\ canvasesCreated' = IF exit = "uninit" THEN 0
                              ELSE CanvasesCreatedAt(exit)
        /\ shaderListeners' = ShaderListenersAt(exit)
        /\ shaderRafPending' = IF exit = "running" THEN 1 ELSE 0
        /\ shaderRafId' = IF exit = "running" THEN "live" ELSE "null"
        /\ shaderIsVisible' = TRUE
        /\ startTime' = IF exit = "running" THEN now ELSE startTime
        /\ uTime' = IF exit = "running" THEN 0 ELSE uTime
        /\ lastDrawAt' = IF exit = "running" THEN now ELSE lastDrawAt
        /\ framesDrawn' = IF exit = "running" THEN 1 ELSE 0
  /\ UNCHANGED <<docHidden, now, lastDeltaTime, lastGapHidden, lastGapWall,
                 hiddenAccum, cleanupCalls, rendersAfterCleanup>>
  /\ UNCHANGED <<handlerThrew, activeDot, animSets, animEffects, prefAtReady>>
  /\ initAllModulesCalls' = initAllModulesCalls + 1
  /\ UNCHANGED <<fontsResolved, imgCount, imgLoaded, imgWaiting,
                 imagesResolved, fallbackArmed, gaugeStarted, gaugeFrames,
                 gaugeNow, psiStart, psiProgress, currentPSI, prevPSI>>
  /\ UNCHANGED <<varsTrigger, varsHScroll, varsAux, lenisLimit, lenisResizes,
                 lastScrollY, isHidden, ticking, headerRafQueue,
                 samplesThisFrame, lastSample, prevLastScrollY, prevIsHidden,
                 magClosures, magneticEls, magTransforms, pointerEventsLeft,
                 addMagneticCalls, activeItems, ariaExpanded, ariaShown,
                 accContent, accFocus, lastToggle, counterOpacity,
                 counterState, counterStart, counterCards, counterIndex,
                 settleSkew, settleTransform, settleEventsLeft,
                 settleReturned, settleWasSkewed>>

\* initLoader's completeLoading, 400 ms after the gauge reached its end:
\* loader.classList.add("hidden"), then initAllModules().  Without #loader
\* the first statement throws and initAllModules is never called.
CompleteLoading(e, d) ==
  \/ /\ ~d.loader
     /\ pagePhase = "loaded"
     /\ pagePhase' = "loaderFailed"
     /\ env' = e
     /\ dom' = d
     /\ threwAt' = "initLoader"
     /\ UNCHANGED <<docHidden, now, varsShader, varsCursor, hscrollMode>>
     /\ UNCHANGED <<invoked, handlerThrew, activeDot, hscrollSnap,
                    prefersReducedMotion, fontsPending, animSets,
                    animEffects, prefAtReady>>
     /\ UNCHANGED <<varsTrigger, varsHScroll, varsAux,
                 varsExt>>
  \/ /\ d.loader
     /\ InitAllModules(e, d)

\* The timeout set by completeLoading fires, in some environment and DOM.
LoaderCompletes ==
  /\ pagePhase = "loaded"
  /\ \E e \in Envs, d \in Doms : CompleteLoading(e, d)

\* The mobile gallery's container "scroll" listener: activeIndex is computed
\* from cards[0].offsetWidth and the dots are recoloured.  With no card,
\* cards[0] is undefined and the listener throws.
ContainerScroll(i) ==
  /\ hscrollMode = "mobile"
  /\ IF Cards(dom) = {}
     THEN /\ handlerThrew' = "containerScroll"
          /\ UNCHANGED activeDot
     ELSE /\ activeDot' = i
          /\ UNCHANGED handlerThrew
  /\ UNCHANGED <<dom, invoked, threwAt, hscrollSnap, prefersReducedMotion,
                 fontsPending, animSets, animEffects, prefAtReady>>
  /\ UNCHANGED <<varsTrigger, varsHScroll, varsPage, varsAux,
                 varsExt>>

\* The "change" listener of the reduced-motion media query.
PreferenceChange(b) ==
  /\ WasInvoked(invoked, "initAnimations")
  /\ b # prefersReducedMotion
  /\ prefersReducedMotion' = b
  /\ UNCHANGED <<dom, invoked, threwAt, handlerThrew, activeDot, hscrollSnap,
                 fontsPending, animSets, animEffects, prefAtReady>>
  /\ UNCHANGED <<varsTrigger, varsHScroll, varsPage, varsAux,
                 varsExt>>

\* document.fonts.ready resolves: the callback of initAnimations runs once.
FontsReady ==
  /\ fontsPending
  /\ fontsPending' = FALSE
  /\ prefAtReady' = prefersReducedMotion
  /\ LET set == AnimationSetFor(prefersReducedMotion, env.reducedMotion)
     IN /\ animSets' = animSets \cup {set}
        /\ animEffects' = animEffects \cup EffectsOf(set)
  /\ UNCHANGED <<dom, invoked, threwAt, handlerThrew, activeDot, hscrollSnap,
                 prefersReducedMotion>>
  /\ UNCHANGED <<varsTrigger, varsHScroll, varsPage, varsAux,
                 varsExt>>

\* Faulty variant: the cursor cancels when hidden and never requests again.
CursorOnVisibilityNoResume(hidden, id, pending) ==
  IF hidden /\ id # "null" THEN
    [id |-> "null", pending |-> IF id = "live" THEN pending - 1 ELSE pending]
  ELSE [id |-> id, pending |-> pending]

\* Faulty variant: the cursor requests a frame on every return to visible.
CursorOnVisibilityUnguarded(hidden, id, pending) ==
  IF hidden /\ id # "null" THEN
    [id |-> "null", pending |-> IF id = "live" THEN pending - 1 ELSE pending]
  ELSE IF ~hidden THEN [id |-> "live", pending |-> pending + 1]
  ELSE [id |-> id, pending |-> pending]

\* The cursor's visibilitychange listener: cancel the pending frame when
\* hidden, request one when visible and none is held.
CursorOnVisibility(hidden, id, pending) ==
  IF hidden /\ id # "null" THEN
    [id |-> "null", pending |-> IF id = "live" THEN pending - 1 ELSE pending]
  ELSE IF ~hidden /\ id = "null" THEN [id |-> "live", pending |-> pending + 1]
  ELSE [id |-> id, pending |-> pending]

\* A visibilitychange event: document.hidden becomes h and the listeners of
\* the shader and of the cursor run.
VisibilityChange(h) ==
  /\ docHidden' = h
  /\ shaderIsVisible' = IF "visibilitychange" \in shaderListeners
                        THEN ~h ELSE shaderIsVisible
  /\ IF cursorOn
     THEN LET c == CursorOnVisibility(h, cursorRafId, cursorRafPending)
          IN /\ cursorIsVisible' = ~h
             /\ cursorRafId' = c.id
             /\ cursorRafPending' = c.pending
     ELSE UNCHANGED <<cursorIsVisible, cursorRafId, cursorRafPending>>
  /\ UNCHANGED <<pagePhase, now, env, cursorOn, hscrollMode, shaderExit,
                 heroStylePos0, heroStylePos, canvasInHero, canvasesCreated,
                 shaderListeners, shaderRafPending, shaderRafId, startTime,
                 uTime, lastDeltaTime, lastGapHidden, lastGapWall,
                 hiddenAccum, lastDrawAt, framesDrawn, cleanupCalls,
                 rendersAfterCleanup>>
  /\ UNCHANGED <<varsTrigger, varsHScroll, varsBoot, varsAux,
                 varsExt>>

\* One frame period of wall-clock time passes.
AdvanceTime ==
  /\ now < MaxClock
  /\ now' = now + 1
  /\ hiddenAccum' = IF shaderExit = "running" /\ ~shaderIsVisible
                    THEN hiddenAccum + 1 ELSE hiddenAccum
  /\ UNCHANGED <<pagePhase, docHidden, env, varsCursor, hscrollMode,
                 shaderExit, heroStylePos0, heroStylePos, canvasInHero,
                 canvasesCreated, shaderListeners, shaderRafPending,
                 shaderRafId, shaderIsVisible, startTime, uTime,
                 lastDeltaTime, lastGapHidden, lastGapWall, lastDrawAt,
                 framesDrawn, cleanupCalls, rendersAfterCleanup>>
  /\ UNCHANGED <<varsTrigger, varsHScroll, varsBoot, varsAux,
                 varsExt>>

\* render(): u_time of the frame drawn at wall-clock time t.
RenderTime(t, start) == t - start

\* The browser runs the shader's pending frame callback: render().
ShaderFrame ==
  /\ shaderRafPending > 0
  /\ shaderRafId' = "live"
  /\ shaderRafPending' = (shaderRafPending - 1) + 1
  /\ rendersAfterCleanup' = IF cleanupCalls > 0 THEN 1 ELSE rendersAfterCleanup
  /\ IF ~shaderIsVisible
     THEN UNCHANGED <<uTime, lastDeltaTime, lastGapHidden, lastGapWall,
                      hiddenAccum, lastDrawAt, framesDrawn>>
     ELSE /\ uTime' = RenderTime(now, startTime)
          /\ lastDeltaTime' = RenderTime(now, startTime) - uTime
          /\ lastGapHidden' = hiddenAccum
          /\ lastGapWall' = now - lastDrawAt
          /\ hiddenAccum' = 0
          /\ lastDrawAt' = now
          /\ framesDrawn' = Min(framesDrawn + 1, 2)
  /\ UNCHANGED <<pagePhase, docHidden, now, env, varsCursor, hscrollMode,
                 shaderExit, heroStylePos0, heroStylePos, canvasInHero,
                 canvasesCreated, shaderListeners, shaderIsVisible, startTime,
                 cleanupCalls>>
  /\ UNCHANGED <<varsTrigger, varsHScroll, varsBoot, varsAux,
                 varsExt>>

\* The browser runs the cursor's pending frame callback: animate(), which
\* requests the next frame on both of its paths.
CursorFrame ==
  /\ cursorRafPending > 0
  /\ cursorRafId' = "live"
  /\ cursorRafPending' = (cursorRafPending - 1) + 1
  /\ UNCHANGED <<pagePhase, docHidden, now, env, cursorOn, cursorIsVisible,
                 hscrollMode, varsShader>>
  /\ UNCHANGED <<varsTrigger, varsHScroll, varsBoot, varsAux,
                 varsExt>>

\* Faulty variant: cleanup does not cancel the pending frame.
CleanupPendingNoCancel(id, pending) == pending

\* cleanup(): if (rafId) cancelAnimationFrame(rafId) -- the frame callbacks
\* left pending.
CleanupPending(id, pending) == IF id = "live" THEN pending - 1 ELSE pending

\* Listeners cleanup() removes.
CleanupRemoves == {"resize", "mousemove"}

\* The caller invokes the cleanup function initHeroShader returned.
Cleanup ==
  /\ shaderExit = "running"
  /\ shaderRafPending' = CleanupPending(shaderRafId, shaderRafPending)
  /\ shaderRafId' = IF shaderRafId = "live" THEN "stale" ELSE shaderRafId
  /\ shaderListeners' = shaderListeners \ CleanupRemoves
  /\ canvasInHero' = FALSE
  /\ cleanupCalls' = Min(cleanupCalls + 1, 2)
  /\ UNCHANGED <<pagePhase, docHidden, now, env, varsCursor, hscrollMode,
                 shaderExit, heroStylePos0, heroStylePos, canvasesCreated,
                 shaderIsVisible, startTime, uTime, lastDeltaTime,
                 lastGapHidden, lastGapWall, hiddenAccum, lastDrawAt,
                 framesDrawn, rendersAfterCleanup>>
  /\ UNCHANGED <<varsTrigger, varsHScroll, varsBoot, varsAux,
                 varsExt>>


(***************************************************************************)
(* What the components hold registered, and what they hand back.           *)
(***************************************************************************)
\* Frame callbacks, listeners and DOM nodes of the shader still in place.
ShaderResources ==
  {<<"shader", l>> : l \in shaderListeners}
  \cup (IF canvasInHero THEN {<<"shader", "canvas">>} ELSE {})
  \cup (IF shaderRafPending > 0 THEN {<<"shader", "frame">>} ELSE {})

\* initCursor: the document listeners and the animate() frame callback.
CursorResources ==
  (IF cursorOn
   THEN {<<"cursor", "mousemove">>, <<"cursor", "visibilitychange">>}
   ELSE IF threwAt = "initCursor" THEN {<<"cursor", "mousemove">>}
   ELSE {})
  \cup (IF cursorRafPending > 0 THEN {<<"cursor", "frame">>} ELSE {})

\* initDesktopScroll: the pinned trigger, the window resize listener and the
\* counter node; initMobileScroll: the dots node and the container listener.
HScrollResources ==
  IF hscrollMode = "desktop"
  THEN {<<"hscroll", "pin">>, <<"hscroll", "resize">>, <<"hscroll", "counter">>}
  ELSE IF hscrollMode = "mobile"
  THEN {<<"hscroll", "dots">>, <<"hscroll", "scroll">>}
  ELSE {}

Registered == ShaderResources \cup CursorResources \cup HScrollResources

\* Handles the initialisers return: initHeroShader returns cleanup when it
\* runs to its end; initCursor and initHorizontalScroll return undefined.
ReturnedHandles == IF shaderExit = "running" THEN {"shaderCleanup"} ELSE {}

\* What a call of the handle takes away.
Revokes(h) ==
  IF h = "shaderCleanup"
  THEN {<<"shader", "frame">>, <<"shader", "canvas">>}
       \cup {<<"shader", l>> : l \in CleanupRemoves}
  ELSE {}

(***************************************************************************)
(* Scroll engine (Lenis; the library is not in the repository, its         *)
(* contract is taken from the specification, 4.1), with the easing and the *)
(* anchor-link listeners of initSmoothScroll.                              *)
(***************************************************************************)
EaseExponent == 10   \* easing: 1.001 - 2^(-10 t)
MaxContent == 3      \* scroll limits 1..MaxContent
MaxRequests == 2     \* scroll requests admitted in a behaviour
PosScale == 100      \* positions are kept in 1/PosScale units

\* Easing values are kept times EaseScale; an animation advances in AnimTicks
\* ticks, t = k/AnimTicks, so that 2^(-10 t) is a power of two.
EaseScale == 1000 * 2^EaseExponent
AnimTicks == EaseExponent \div 2

\* Faulty variant: the easing without its Math.min(1, ...).
EasingUnclamped(k) ==
  (1001 * EaseScale) \div 1000
    - EaseScale \div 2^((EaseExponent \div AnimTicks) * k)

\* easing: (t) => Math.min(1, 1.001 - Math.pow(2, -10 * t)), at t = k/AnimTicks
Easing(k) ==
  Min(EaseScale,
      (1001 * EaseScale) \div 1000
        - EaseScale \div 2^((EaseExponent \div AnimTicks) * k))

\* infinite: false -- a requested target is clamped into [0, limit].
ClampScroll(x, len) == Max(0, Min(x, len))

\* Elements with an id, and the offset of each; the last lies beyond the
\* scroll limit.
PageIds == {"works", "contact"}
ElementTop == [id \in PageIds |-> IF id = "works" THEN 1 ELSE MaxContent + 1]

\* hrefs matched by a[href^="#"]: the bare "#", and "#" followed by an id.
Hrefs == {<<"#">>} \cup {<<"#", id>> : id \in PageIds \cup {"missing"}}

\* document.querySelector(href): "#" alone is not a valid selector and
\* raises a SyntaxError; an id selector yields the element or null.
QuerySelector(h) ==
  IF Len(h) < 2 THEN "SyntaxError"
  ELSE IF h[2] \in PageIds THEN h[2]
  ELSE "null"

\* lenis.scrollTo(target, {duration, easing}): a new animation from the
\* current position to the clamped target.
ScrollTo(raw) ==
  /\ requestsLeft > 0
  /\ requestsLeft' = requestsLeft - 1
  /\ lastRequestRaw' = raw
  /\ animFrom' = enginePos
  /\ animTo' = ClampScroll(raw, contentLength)
  /\ animElapsed' = 0
  /\ animActive' = TRUE
  /\ UNCHANGED <<contentLength, enginePos, easeValue>>

\* The click listener of an anchor: preventDefault, querySelector(href),
\* and scrollTo when an element was found.
AnchorClick(h) ==
  /\ lastHref' = h
  /\ clickThrew' = (QuerySelector(h) = "SyntaxError")
  /\ clickScrollTo' = (QuerySelector(h) \in PageIds)
  /\ IF QuerySelector(h) \in PageIds
     THEN ScrollTo(ElementTop[QuerySelector(h)])
     ELSE UNCHANGED <<contentLength, enginePos, animFrom, animTo,
                      animElapsed, animActive, easeValue, requestsLeft,
                      lastRequestRaw>>
  /\ UNCHANGED <<varsTrigger, varsHScroll, varsPage, varsBoot, varsMotion,
                 varsLerp, varsExt>>

\* A wheel or touch delta: the engine's target moves by it.
WheelInput(delta) ==
  /\ ScrollTo(animTo + delta)
  /\ UNCHANGED <<lastHref, clickThrew, clickScrollTo>>
  /\ UNCHANGED <<varsTrigger, varsHScroll, varsPage, varsBoot, varsMotion,
                 varsLerp, varsExt>>

\* One tick of the running animation: position = from + (to - from) * eased.
EngineTick ==
  /\ animActive
  /\ animElapsed' = animElapsed + 1
  /\ easeValue' = Easing(animElapsed + 1)
  /\ enginePos' = animFrom
                    + ((animTo * PosScale - animFrom) * Easing(animElapsed + 1))
                        \div EaseScale
  /\ animActive' = (animElapsed + 1 < AnimTicks)
  /\ UNCHANGED <<contentLength, animFrom, animTo, requestsLeft,
                 lastRequestRaw, lastHref, clickThrew, clickScrollTo>>
  /\ UNCHANGED <<varsTrigger, varsHScroll, varsPage, varsBoot, varsMotion,
                 varsLerp, varsExt>>


(***************************************************************************)
(* The smoothing recurrence, and the velocity-driven skew of               *)
(* initVelocityBlur on the GSAP ticker.                                    *)
(***************************************************************************)
MaxFrames == 4       \* frames run
UnitsPerPx == 2      \* position units per pixel
NumTargets == 2      \* elements matched by the motionTargets selector
MaxTarget == 3       \* recurrence targets -MaxTarget..MaxTarget

\* Faulty variant: the step is added without subtracting the current value.
LerpNoCarry(cur, target, rate, n) ==
  rate[2] * cur + rate[1] * target * rate[2]^n

\* current += (target - current) * r, with r = rate[1]/rate[2]: the value is
\* kept exactly, cur over rate[2]^n and the result over rate[2]^(n+1).
Lerp(cur, target, rate, n) ==
  (rate[2] - rate[1]) * cur + rate[1] * target * rate[2]^n

\* The rates: 0.12 for the skew proxy and the cursor outline, 0.15 for the
\* magnetic pull.
LerpKinds == {"skew", "outline", "magnetic"}
LerpRate(kind) == IF kind = "magnetic" THEN <<3, 20>> ELSE <<3, 25>>

\* Skew values are kept times SkewDen (and times 25^frames once smoothed).
SkewDen == 20 * UnitsPerPx

\* Math.max(-2, Math.min(scrollVelocity * 0.15, 2)), v in position units
TargetSkew(v) == Max(-(2 * SkewDen), Min(3 * v, 2 * SkewDen))

\* Math.abs(motionProxy.skew) > 0.01
AboveThreshold(num, n) == Abs(num) > (SkewDen * 25^n) \div 100

\* Element style writes of one callback: above the threshold every target
\* gets the skewY transform, otherwise every target gets transform = "".
StyleWritesOf(num, n) ==
  IF AboveThreshold(num, n) THEN NumTargets ELSE NumTargets

\* Faulty variant: the skew callback is on the ticker before lenis.raf.
TickerCallbacksSkewFirst == <<"velocityBlur", "lenisRaf">>

\* gsap.ticker callbacks in the order they were added: initSmoothScroll adds
\* lenis.raf, initVelocityBlur (after the fonts) adds the skew callback.
TickerCallbacks == <<"lenisRaf", "velocityBlur">>

IndexOf(seq, x) == CHOOSE i \in 1..Len(seq) : seq[i] = x

\* scrollVelocity as the skew callback reads it in a frame in which lenis.raf
\* changes it from `before` to `after`.
VelocitySeen(order, before, after) ==
  IF IndexOf(order, "velocityBlur") > IndexOf(order, "lenisRaf")
  THEN after ELSE before

\* Positions the engine takes in the frames of the skew model.
MotionPositions == {0, 1, 2, 10 * MaxScroll}

\* One ticker frame: lenis.raf moves the position to p and emits "scroll";
\* the skew callback runs.
TickerFrame(p) ==
  /\ skewFrames < MaxFrames
  /\ LenisEmit(p)
  /\ velocityRead' = VelocitySeen(TickerCallbacks, scrollVelocity,
                                  scrollVelocity')
  /\ targetNum' = TargetSkew(velocityRead')
  /\ skewNum' = Lerp(skewNum, targetNum', LerpRate("skew"), skewFrames)
  /\ skewFrames' = skewFrames + 1
  /\ styleWrites' = StyleWritesOf(skewNum', skewFrames')
  /\ UNCHANGED <<varsHScroll, varsPage, varsBoot, varsEngine, varsLerp,
                 varsExt>>

\* One frame of a smoothed value on its own; the target stays, or returns
\* to 0 when released (the magnetic pull when the pointer leaves).
LerpFrame(release) ==
  /\ lerpN < MaxFrames
  /\ lerpTarget' = IF release THEN 0 ELSE lerpTarget
  /\ lerpNum' = Lerp(lerpNum, lerpTarget', LerpRate(lerpKind), lerpN)
  /\ lerpN' = lerpN + 1
  /\ lerpSteady' = (lerpSteady /\ lerpTarget' = lerpTarget)
  /\ UNCHANGED lerpKind
  /\ UNCHANGED <<varsTrigger, varsHScroll, varsPage, varsBoot, varsEngine,
                 varsMotion, varsExt>>


(***************************************************************************)
(* Smart header (smooth-scroll.js, initSmartHeader).                       *)
(***************************************************************************)
hideThreshold == 100
scrollDelta == 10
HeaderGridPx == 5    \* spacing of the sampled positions past the threshold
HeaderSpan == 4      \* sampled positions past the threshold

\* Scroll positions Lenis reports: the top, just under the threshold, the
\* threshold and a grid past it.
HeaderSamples ==
  {0, hideThreshold - 1}
  \cup {hideThreshold + HeaderGridPx * k : k \in 0..HeaderSpan}

\* Faulty variant: no "always show at the top of the page" branch.
HandleScrollNoTopBranch(last, hidden, y) ==
  LET delta == y - last
      hide == delta > 0 /\ ~hidden /\ y > hideThreshold
      h1 == IF hide THEN TRUE ELSE hidden
      h2 == IF delta < 0 /\ h1 THEN FALSE ELSE h1
  IN IF Abs(delta) < scrollDelta
     THEN [lastScrollY |-> last, isHidden |-> hidden]
     ELSE [lastScrollY |-> y, isHidden |-> h2]

\* Faulty variant: no minimum scroll distance.
HandleScrollNoJitterGuard(last, hidden, y) ==
  LET delta == y - last
      hide == delta > 0 /\ ~hidden /\ y > hideThreshold
      h1 == IF hide THEN TRUE ELSE hidden
      h2 == IF delta < 0 /\ h1 THEN FALSE ELSE h1
  IN IF y < hideThreshold
     THEN [lastScrollY |-> y, isHidden |-> FALSE]
     ELSE [lastScrollY |-> y, isHidden |-> h2]

\* handleScroll(currentScrollY): lastScrollY and isHidden after the call.
\* hideHeader() sets isHidden, showHeader() resets it.
HandleScroll(last, hidden, y) ==
  LET delta == y - last
      hide == delta > 0 /\ ~hidden /\ y > hideThreshold
      h1 == IF hide THEN TRUE ELSE hidden
      h2 == IF delta < 0 /\ h1 THEN FALSE ELSE h1
  IN IF y < hideThreshold
     THEN [lastScrollY |-> y, isHidden |-> FALSE]
     ELSE IF Abs(delta) < scrollDelta
     THEN [lastScrollY |-> last, isHidden |-> hidden]
     ELSE [lastScrollY |-> y, isHidden |-> h2]

\* The closure after the frame callbacks holding the samples of q ran, in
\* order: st = [lastScrollY, isHidden, prevLastScrollY, prevIsHidden].
RECURSIVE RunHeaderCallbacks(_, _)
RunHeaderCallbacks(q, st) ==
  IF q = <<>> THEN st
  ELSE LET r == HandleScroll(st.lastScrollY, st.isHidden, Head(q))
       IN RunHeaderCallbacks(Tail(q),
            [lastScrollY |-> r.lastScrollY, isHidden |-> r.isHidden,
             prevLastScrollY |-> st.lastScrollY,
             prevIsHidden |-> st.isHidden])

\* Lenis emits "scroll" at position y: the listener requests a frame for
\* handleScroll(y) unless one is already requested.
HeaderScrollEvent(y) ==
  /\ headerRafQueue' = IF ~ticking THEN Append(headerRafQueue, y)
                       ELSE headerRafQueue
  /\ ticking' = TRUE
  /\ UNCHANGED <<lastScrollY, isHidden, samplesThisFrame, lastSample,
                 prevLastScrollY, prevIsHidden>>
  /\ UNCHANGED <<varsTrigger, varsHScroll, varsPage, varsBoot, varsAux,
                 lenisLimit, lenisResizes, magClosures, magneticEls,
                 magTransforms, pointerEventsLeft, addMagneticCalls,
                 activeItems, ariaExpanded, ariaShown, accContent, accFocus,
                 lastToggle, initAllModulesCalls, fontsResolved, imgCount,
                 imgLoaded, imgWaiting, imagesResolved, fallbackArmed,
                 gaugeStarted, gaugeFrames, gaugeNow, psiStart, psiProgress,
                 currentPSI, prevPSI, counterOpacity, counterState,
                 counterStart, counterCards, counterIndex, settleSkew,
                 settleTransform, settleEventsLeft, settleReturned,
                 settleWasSkewed>>

\* An animation frame: the requested callbacks run handleScroll and reset
\* ticking.
HeaderFrame ==
  /\ headerRafQueue # <<>>
  /\ LET st == RunHeaderCallbacks(headerRafQueue,
                 [lastScrollY |-> lastScrollY, isHidden |-> isHidden,
                  prevLastScrollY |-> prevLastScrollY,
                  prevIsHidden |-> prevIsHidden])
     IN /\ lastScrollY' = st.lastScrollY
        /\ isHidden' = st.isHidden
        /\ prevLastScrollY' = st.prevLastScrollY
        /\ prevIsHidden' = st.prevIsHidden
  /\ lastSample' = headerRafQueue[Len(headerRafQueue)]
  /\ samplesThisFrame' = Len(headerRafQueue)
  /\ headerRafQueue' = <<>>
  /\ ticking' = FALSE
  /\ UNCHANGED <<varsTrigger, varsHScroll, varsPage, varsBoot, varsAux,
                 lenisLimit, lenisResizes, magClosures, magneticEls,
                 magTransforms, pointerEventsLeft, addMagneticCalls,
                 activeItems, ariaExpanded, ariaShown, accContent, accFocus,
                 lastToggle, initAllModulesCalls, fontsResolved, imgCount,
                 imgLoaded, imgWaiting, imagesResolved, fallbackArmed,
                 gaugeStarted, gaugeFrames, gaugeNow, psiStart, psiProgress,
                 currentPSI, prevPSI, counterOpacity, counterState,
                 counterStart, counterCards, counterIndex, settleSkew,
                 settleTransform, settleEventsLeft, settleReturned,
                 settleWasSkewed>>


(***************************************************************************)
(* Magnetic elements (the premium magnetic module).                        *)
(***************************************************************************)
MagUnits == 100      \* offsets are kept in 1/MagUnits px
MagOffsetPx == 1     \* pointer distance from the element's centre, px
MaxPointerEvents == 3 \* pointer events admitted
MaxAddCalls == 1     \* addMagnetic calls admitted

\* "button" carries data-magnetic in the markup and has child spans;
\* "added" is handed to addMagnetic and has none.
MagElements == {"button", "added"}
MagChildren(el) == IF el = "button" THEN {"span"} ELSE {}

\* e.clientX - centerX, e.clientY - centerY
PointerOffsets == {<<MagOffsetPx, 0>>, <<-MagOffsetPx, MagOffsetPx>>}

\* current += (target - current) * r on values kept in fixed point, r =
\* rate[1]/rate[2]; the product is rounded down to a whole unit.
LerpFixed(cur, target, rate) == cur + ((target - cur) * rate[1]) \div rate[2]

\* The state one forEach pass of initMagnetic creates for element el.
NewClosure(el) ==
  [el |-> el, isHovering |-> FALSE, rafId |-> "null", pending |-> 0,
   targetX |-> 0, targetY |-> 0, currentX |-> 0, currentY |-> 0]

\* initMagnetic(): one closure, with its own listeners, per element found.
InitMagneticClosures(els) == [i \in 1..Len(els) |-> NewClosure(els[i])]

\* Faulty variant: the frame is requested whether or not one is pending.
RequestFrameUnguarded(c) ==
  [c EXCEPT !.rafId = "live", !.pending = @ + 1]

\* if (!rafId) rafId = requestAnimationFrame(updatePosition)
RequestFrame(c) ==
  IF c.rafId = "null" THEN [c EXCEPT !.rafId = "live", !.pending = @ + 1]
  ELSE c

\* The mouseenter, mousemove and mouseleave listeners of a closure; off is
\* the pointer's offset from the centre, strength the default 0.3.
MagneticHandler(c, ev, off) ==
  IF ev = "mouseenter" THEN RequestFrame([c EXCEPT !.isHovering = TRUE])
  ELSE IF ev = "mouseleave" THEN RequestFrame([c EXCEPT !.isHovering = FALSE])
  ELSE IF ~c.isHovering THEN c
  ELSE RequestFrame([c EXCEPT !.targetX = (off[1] * MagUnits * 3) \div 10,
                              !.targetY = (off[2] * MagUnits * 3) \div 10])

\* updatePosition(), run as a frame callback: the closure after it.
UpdatePosition(c) ==
  LET tx == IF ~c.isHovering THEN 0 ELSE c.targetX
      ty == IF ~c.isHovering THEN 0 ELSE c.targetY
      cx == LerpFixed(c.currentX, tx, LerpRate("magnetic"))
      cy == LerpFixed(c.currentY, ty, LerpRate("magnetic"))
      stop == MagUnits \div 10
      again == Abs(cx) > stop \/ Abs(cy) > stop
               \/ Abs(tx) > stop \/ Abs(ty) > stop
  IN [c EXCEPT !.targetX = tx, !.targetY = ty,
               !.currentX = cx, !.currentY = cy,
               !.rafId = IF again THEN "live" ELSE "null",
               !.pending = (@ - 1) + (IF again THEN 1 ELSE 0)]

\* What carries x/y/rotation props after updatePosition() ran on closure c:
\* gsap.set on the element and its children, clearProps when the loop stops
\* with the pointer gone.
TransformsAfter(c) ==
  IF UpdatePosition(c).rafId = "null" /\ ~c.isHovering THEN {}
  ELSE {"el"} \cup (IF MagChildren(c.el) # {} THEN {"children"} ELSE {})

\* Closure c runs its k pending callbacks; tr is what carries props.
RECURSIVE RunClosureCallbacks(_, _, _)
RunClosureCallbacks(c, k, tr) ==
  IF k = 0 THEN [c |-> c, tr |-> tr]
  ELSE RunClosureCallbacks(UpdatePosition(c), k - 1, TransformsAfter(c))

\* Frame callbacks pending for element el, over all its closures.
RECURSIVE PendingOf(_, _)
PendingOf(cs, el) ==
  IF cs = <<>> THEN 0
  ELSE (IF Head(cs).el = el THEN Head(cs).pending ELSE 0)
       + PendingOf(Tail(cs), el)

\* Sets of mouse listeners element el carries: one per closure.
HandlerSets(el) ==
  Cardinality({i \in DOMAIN magClosures : magClosures[i].el = el})

\* A mouseenter, mousemove or mouseleave event on element el: every closure
\* listening on el runs its listener.
PointerEvent(el, ev, off) ==
  /\ pointerEventsLeft > 0
  /\ HandlerSets(el) > 0
  /\ magClosures' = [i \in DOMAIN magClosures |->
                       IF magClosures[i].el = el
                       THEN MagneticHandler(magClosures[i], ev, off)
                       ELSE magClosures[i]]
  /\ pointerEventsLeft' = pointerEventsLeft - 1
  /\ UNCHANGED <<magneticEls, magTransforms, addMagneticCalls>>
  /\ UNCHANGED <<varsTrigger, varsHScroll, varsPage, varsBoot, varsAux,
                 lenisLimit, lenisResizes, lastScrollY, isHidden, ticking,
                 headerRafQueue, samplesThisFrame, lastSample,
                 prevLastScrollY, prevIsHidden, activeItems, ariaExpanded,
                 ariaShown, accContent, accFocus, lastToggle,
                 initAllModulesCalls, fontsResolved, imgCount, imgLoaded,
                 imgWaiting, imagesResolved, fallbackArmed, gaugeStarted,
                 gaugeFrames, gaugeNow, psiStart, psiProgress, currentPSI,
                 prevPSI, counterOpacity, counterState, counterStart,
                 counterCards, counterIndex, settleSkew, settleTransform,
                 settleEventsLeft, settleReturned, settleWasSkewed>>

\* An animation frame: every pending updatePosition callback runs.
MagneticFrame ==
  /\ \E i \in DOMAIN magClosures : magClosures[i].pending > 0
  /\ LET run == [i \in DOMAIN magClosures |->
                   RunClosureCallbacks(magClosures[i], magClosures[i].pending,
                                       magTransforms[magClosures[i].el])]
         ran(el) == {i \in DOMAIN magClosures :
                       magClosures[i].el = el /\ magClosures[i].pending > 0}
         last(el) == CHOOSE i \in ran(el) : \A j \in ran(el) : j <= i
     IN /\ magClosures' = [i \in DOMAIN magClosures |-> run[i].c]
        /\ magTransforms' = [el \in MagElements |->
                               IF ran(el) = {} THEN magTransforms[el]
                               ELSE run[last(el)].tr]
  /\ UNCHANGED <<magneticEls, pointerEventsLeft, addMagneticCalls>>
  /\ UNCHANGED <<varsTrigger, varsHScroll, varsPage, varsBoot, varsAux,
                 lenisLimit, lenisResizes, lastScrollY, isHidden, ticking,
                 headerRafQueue, samplesThisFrame, lastSample,
                 prevLastScrollY, prevIsHidden, activeItems, ariaExpanded,
                 ariaShown, accContent, accFocus, lastToggle,
                 initAllModulesCalls, fontsResolved, imgCount, imgLoaded,
                 imgWaiting, imagesResolved, fallbackArmed, gaugeStarted,
                 gaugeFrames, gaugeNow, psiStart, psiProgress, currentPSI,
                 prevPSI, counterOpacity, counterState, counterStart,
                 counterCards, counterIndex, settleSkew, settleTransform,
                 settleEventsLeft, settleReturned, settleWasSkewed>>

\* addMagnetic(element): the data attributes are set and initMagnetic() runs
\* again over every [data-magnetic] element of the document.
AddMagnetic(element) ==
  /\ addMagneticCalls < MaxAddCalls
  /\ LET els == IF \E i \in DOMAIN magneticEls : magneticEls[i] = element
                THEN magneticEls ELSE Append(magneticEls, element)
     IN /\ magneticEls' = els
        /\ magClosures' = magClosures \o InitMagneticClosures(els)
  /\ addMagneticCalls' = addMagneticCalls + 1
  /\ UNCHANGED <<magTransforms, pointerEventsLeft>>
  /\ UNCHANGED <<varsTrigger, varsHScroll, varsPage, varsBoot, varsAux,
                 lenisLimit, lenisResizes, lastScrollY, isHidden, ticking,
                 headerRafQueue, samplesThisFrame, lastSample,
                 prevLastScrollY, prevIsHidden, activeItems, ariaExpanded,
                 ariaShown, accContent, accFocus, lastToggle,
                 initAllModulesCalls, fontsResolved, imgCount, imgLoaded,
                 imgWaiting, imagesResolved, fallbackArmed, gaugeStarted,
                 gaugeFrames, gaugeNow, psiStart, psiProgress, currentPSI,
                 prevPSI, counterOpacity, counterState, counterStart,
                 counterCards, counterIndex, settleSkew, settleTransform,
                 settleEventsLeft, settleReturned, settleWasSkewed>>


(***************************************************************************)
(* The services accordion (accordion.js).                                  *)
(***************************************************************************)
NumItems == 3        \* .accordion-item elements of the page

AccordionItems == 0..(NumItems - 1)

\* toggleAccordion(activate) of item i: the class and ARIA state after it.
\* active: items with class "active"; expanded: headers with aria-expanded
\* "true"; shown: contents with aria-hidden "false"; content: the items that
\* have a content element. activate is "null" or a boolean.
ToggleAccordion(active, content, i, activate) ==
  LET isActive == i \in active
      shouldActivate == IF activate # "null" THEN activate ELSE ~isActive
  IN IF shouldActivate
     THEN [active |-> {i}, expanded |-> {i}, shown |-> {i} \cap content]
     ELSE [active |-> {}, expanded |-> {}, shown |-> {}]

\* The header focused by an ArrowDown, ArrowUp, Home or End key on item i.
FocusTarget(i, key) ==
  IF key = "ArrowDown" THEN (i + 1) % NumItems
  ELSE IF key = "ArrowUp" THEN (IF i = 0 THEN NumItems - 1 ELSE i - 1)
  ELSE IF key = "Home" THEN 0
  ELSE NumItems - 1

\* A click on the header of item i, or Enter or Space on it.
AccordionToggle(i) ==
  /\ LET r == ToggleAccordion(activeItems, accContent, i, "null")
     IN /\ activeItems' = r.active
        /\ ariaExpanded' = r.expanded
        /\ ariaShown' = r.shown
  /\ lastToggle' = [item |-> i, wasActive |-> i \in activeItems]
  /\ UNCHANGED <<accContent, accFocus>>
  /\ UNCHANGED <<varsTrigger, varsHScroll, varsPage, varsBoot, varsAux,
                 lenisLimit, lenisResizes, lastScrollY, isHidden, ticking,
                 headerRafQueue, samplesThisFrame, lastSample,
                 prevLastScrollY, prevIsHidden, magClosures, magneticEls,
                 magTransforms, pointerEventsLeft, addMagneticCalls,
                 initAllModulesCalls, fontsResolved, imgCount, imgLoaded,
                 imgWaiting, imagesResolved, fallbackArmed, gaugeStarted,
                 gaugeFrames, gaugeNow, psiStart, psiProgress, currentPSI,
                 prevPSI, counterOpacity, counterState, counterStart,
                 counterCards, counterIndex, settleSkew, settleTransform,
                 settleEventsLeft, settleReturned, settleWasSkewed>>

\* An arrow, Home or End key on the header of item i moves the focus.
AccordionKey(i, key) ==
  /\ accFocus' = FocusTarget(i, key)
  /\ accFocus' # accFocus
  /\ UNCHANGED <<activeItems, ariaExpanded, ariaShown, accContent, lastToggle>>
  /\ UNCHANGED <<varsTrigger, varsHScroll, varsPage, varsBoot, varsAux,
                 lenisLimit, lenisResizes, lastScrollY, isHidden, ticking,
                 headerRafQueue, samplesThisFrame, lastSample,
                 prevLastScrollY, prevIsHidden, magClosures, magneticEls,
                 magTransforms, pointerEventsLeft, addMagneticCalls,
                 initAllModulesCalls, fontsResolved, imgCount, imgLoaded,
                 imgWaiting, imagesResolved, fallbackArmed, gaugeStarted,
                 gaugeFrames, gaugeNow, psiStart, psiProgress, currentPSI,
                 prevPSI, counterOpacity, counterState, counterStart,
                 counterCards, counterIndex, settleSkew, settleTransform,
                 settleEventsLeft, settleReturned, settleWasSkewed>>


(***************************************************************************)
(* The loading sequence (initLoader and loadCriticalImages of main.js).    *)
(***************************************************************************)
targetPSI == 4000       \* the gauge's end value
GaugeExponent == 10     \* easeOutExpo: 1 - 2^(-10 t)
MaxImages == 2          \* critical images on the page
MaxGaugeClock == 8      \* frame timestamps 1..MaxGaugeClock, in ticks

\* Timestamps advance in ticks of totalDuration/GaugeTicks = 500 ms, so
\* that t = k/GaugeTicks and 2^(-10 t) is a power of two.
GaugeTicks == GaugeExponent \div 2

\* Math.min(elapsed / totalDuration, 1), in ticks
GaugeProgress(elapsed) == Min(elapsed, GaugeTicks)

\* Math.floor(easeOutExpo(progress) * targetPSI), with
\* easeOutExpo(t) = t === 1 ? 1 : 1 - Math.pow(2, -10 * t)
GaugePSI(k) ==
  IF k = GaugeTicks THEN targetPSI
  ELSE LET p == 2^((GaugeExponent \div GaugeTicks) * k)
       IN (targetPSI * (p - 1)) \div p

\* const total = criticalImages.length || 1
ImageTotal(n) == IF n = 0 THEN 1 ELSE n

\* Faulty variant: the gauge starts as soon as either promise resolves.
PromiseAny(fonts, images) == fonts \/ images

\* Promise.all([document.fonts.ready, loadCriticalImages()])
PromiseAll(fonts, images) == fonts /\ images

\* document.fonts.ready resolves.
LoaderFontsReady ==
  /\ ~fontsResolved
  /\ fontsResolved' = TRUE
  /\ UNCHANGED <<initAllModulesCalls, imgCount, imgLoaded, imgWaiting,
                 imagesResolved, fallbackArmed,
                 gaugeStarted, gaugeFrames, gaugeNow,
                 psiStart, psiProgress, currentPSI, prevPSI>>
  /\ UNCHANGED <<varsTrigger, varsHScroll, varsPage, varsBoot, varsAux,
                 lenisLimit, lenisResizes, lastScrollY, isHidden, ticking,
                 headerRafQueue, samplesThisFrame, lastSample,
                 prevLastScrollY, prevIsHidden, magClosures, magneticEls,
                 magTransforms, pointerEventsLeft, addMagneticCalls,
                 activeItems, ariaExpanded, ariaShown, accContent, accFocus,
                 lastToggle, counterOpacity, counterState, counterStart,
                 counterCards, counterIndex, settleSkew, settleTransform,
                 settleEventsLeft, settleReturned, settleWasSkewed>>

\* The load or the error listener of a critical image that was not complete.
ImageSettles ==
  /\ imgWaiting > 0
  /\ imgWaiting' = imgWaiting - 1
  /\ imgLoaded' = imgLoaded + 1
  /\ imagesResolved' = (imagesResolved \/ imgLoaded + 1 >= ImageTotal(imgCount))
  /\ UNCHANGED <<initAllModulesCalls, fontsResolved, imgCount, fallbackArmed,
                 gaugeStarted, gaugeFrames, gaugeNow,
                 psiStart, psiProgress, currentPSI, prevPSI>>
  /\ UNCHANGED <<varsTrigger, varsHScroll, varsPage, varsBoot, varsAux,
                 lenisLimit, lenisResizes, lastScrollY, isHidden, ticking,
                 headerRafQueue, samplesThisFrame, lastSample,
                 prevLastScrollY, prevIsHidden, magClosures, magneticEls,
                 magTransforms, pointerEventsLeft, addMagneticCalls,
                 activeItems, ariaExpanded, ariaShown, accContent, accFocus,
                 lastToggle, counterOpacity, counterState, counterStart,
                 counterCards, counterIndex, settleSkew, settleTransform,
                 settleEventsLeft, settleReturned, settleWasSkewed>>

\* setTimeout(resolve, 3000) of loadCriticalImages fires.
FallbackTimeout ==
  /\ fallbackArmed
  /\ fallbackArmed' = FALSE
  /\ imagesResolved' = TRUE
  /\ UNCHANGED <<initAllModulesCalls, fontsResolved, imgCount, imgLoaded,
                 imgWaiting, gaugeStarted, gaugeFrames,
                 gaugeNow, psiStart, psiProgress,
                 currentPSI, prevPSI>>
  /\ UNCHANGED <<varsTrigger, varsHScroll, varsPage, varsBoot, varsAux,
                 lenisLimit, lenisResizes, lastScrollY, isHidden, ticking,
                 headerRafQueue, samplesThisFrame, lastSample,
                 prevLastScrollY, prevIsHidden, magClosures, magneticEls,
                 magTransforms, pointerEventsLeft, addMagneticCalls,
                 activeItems, ariaExpanded, ariaShown, accContent, accFocus,
                 lastToggle, counterOpacity, counterState, counterStart,
                 counterCards, counterIndex, settleSkew, settleTransform,
                 settleEventsLeft, settleReturned, settleWasSkewed>>

\* The then-callback of Promise.all: requestAnimationFrame(animatePSI).
GaugeStart ==
  /\ ~gaugeStarted
  /\ PromiseAll(fontsResolved, imagesResolved)
  /\ gaugeStarted' = TRUE
  /\ gaugeFrames' = gaugeFrames + 1
  /\ UNCHANGED <<initAllModulesCalls, fontsResolved, imgCount, imgLoaded,
                 imgWaiting, imagesResolved, fallbackArmed,
                 gaugeNow, psiStart, psiProgress,
                 currentPSI, prevPSI>>
  /\ UNCHANGED <<varsTrigger, varsHScroll, varsPage, varsBoot, varsAux,
                 lenisLimit, lenisResizes, lastScrollY, isHidden, ticking,
                 headerRafQueue, samplesThisFrame, lastSample,
                 prevLastScrollY, prevIsHidden, magClosures, magneticEls,
                 magTransforms, pointerEventsLeft, addMagneticCalls,
                 activeItems, ariaExpanded, ariaShown, accContent, accFocus,
                 lastToggle, counterOpacity, counterState, counterStart,
                 counterCards, counterIndex, settleSkew, settleTransform,
                 settleEventsLeft, settleReturned, settleWasSkewed>>

\* Time passes between frames.
GaugeTick ==
  /\ gaugeNow < MaxGaugeClock
  /\ pagePhase = "loading"
  /\ gaugeNow' = gaugeNow + 1
  /\ UNCHANGED <<initAllModulesCalls, fontsResolved, imgCount, imgLoaded,
                 imgWaiting, imagesResolved, fallbackArmed,
                 gaugeStarted, gaugeFrames, psiStart,
                 psiProgress, currentPSI, prevPSI>>
  /\ UNCHANGED <<varsTrigger, varsHScroll, varsPage, varsBoot, varsAux,
                 lenisLimit, lenisResizes, lastScrollY, isHidden, ticking,
                 headerRafQueue, samplesThisFrame, lastSample,
                 prevLastScrollY, prevIsHidden, magClosures, magneticEls,
                 magTransforms, pointerEventsLeft, addMagneticCalls,
                 activeItems, ariaExpanded, ariaShown, accContent, accFocus,
                 lastToggle, counterOpacity, counterState, counterStart,
                 counterCards, counterIndex, settleSkew, settleTransform,
                 settleEventsLeft, settleReturned, settleWasSkewed>>

\* animatePSI(timestamp): the counter is recomputed and shown; below
\* progress 1 the next frame is requested, at 1 completeLoading() sets its
\* 400 ms timeout.
AnimatePSI ==
  /\ gaugeFrames > 0
  /\ LET start == IF psiStart = -1 THEN gaugeNow ELSE psiStart
         progress == GaugeProgress(gaugeNow - start)
     IN /\ psiStart' = start
        /\ psiProgress' = progress
        /\ prevPSI' = currentPSI
        /\ currentPSI' = GaugePSI(progress)
        /\ gaugeFrames' = (gaugeFrames - 1)
                          + (IF progress < GaugeTicks THEN 1 ELSE 0)
        /\ pagePhase' = IF progress < GaugeTicks THEN pagePhase ELSE "loaded"
  /\ UNCHANGED <<initAllModulesCalls, fontsResolved, imgCount, imgLoaded,
                 imgWaiting, imagesResolved, fallbackArmed, gaugeStarted,
                 gaugeNow>>
  /\ UNCHANGED <<docHidden, now, env, varsShader, varsCursor, hscrollMode>>
  /\ UNCHANGED <<varsTrigger, varsHScroll, varsBoot, varsAux, lenisLimit,
                 lenisResizes, lastScrollY, isHidden, ticking, headerRafQueue,
                 samplesThisFrame, lastSample, prevLastScrollY, prevIsHidden,
                 magClosures, magneticEls, magTransforms, pointerEventsLeft,
                 addMagneticCalls, activeItems, ariaExpanded, ariaShown,
                 accContent, accFocus, lastToggle, counterOpacity,
                 counterState, counterStart, counterCards, counterIndex,
                 settleSkew, settleTransform, settleEventsLeft,
                 settleReturned, settleWasSkewed>>


(***************************************************************************)
(* The gallery's progress counter (initDesktopScroll).  The trigger with a *)
(* start and an end is the library's; its behaviour is taken from the      *)
(* specification, 4.2.                                                     *)
(***************************************************************************)
MaxStart == 1        \* the section's start offset, 0..MaxStart

\* A trigger with start and end is Active strictly between the two.
RangeState(start, end, pos) ==
  IF pos <= start THEN "Before" ELSE IF pos >= end THEN "After" ELSE "Active"

\* Callbacks of one update at position pos, the last update having been at
\* seen: onEnter and onLeaveBack at the start, onLeave and onEnterBack at the
\* end, onUpdate whenever the progress changed; an update that jumps over
\* the whole region fires the entering and then the leaving callback.
RangeEvents(state, seen, start, end, pos) ==
  LET to == RangeState(start, end, pos)
  IN IF state = "Before" /\ to = "Active" THEN <<"onEnter", "onUpdate">>
     ELSE IF state = "Before" /\ to = "After"
       THEN <<"onEnter", "onUpdate", "onLeave">>
     ELSE IF state = "Active" /\ to = "Before"
       THEN <<"onUpdate", "onLeaveBack">>
     ELSE IF state = "Active" /\ to = "After" THEN <<"onUpdate", "onLeave">>
     ELSE IF state = "Active" /\ pos # seen THEN <<"onUpdate">>
     ELSE IF state = "After" /\ to = "Active"
       THEN <<"onEnterBack", "onUpdate">>
     ELSE IF state = "After" /\ to = "Before"
       THEN <<"onEnterBack", "onUpdate", "onLeaveBack">>
     ELSE <<>>

\* self.progress as the fraction <<numerator, denominator>>, clamped to
\* [0, 1]; without a positive distance it is 0 up to the start and 1 beyond.
RangeProgress(start, end, pos) ==
  IF end > start THEN <<Max(0, Min(pos - start, end - start)), end - start>>
  ELSE <<IF pos > start THEN 1 ELSE 0, 1>>

\* Faulty variant: onEnterBack does not show the counter.
CounterHandlersNoEnterBack ==
  [onEnter |-> "1", onLeave |-> "0", onEnterBack |-> "keep",
   onLeaveBack |-> "0", onUpdate |-> "index"]

\* The callbacks of ScrollTrigger.create: the opacity each one sets, and the
\* index update of onUpdate.
CounterHandlers ==
  [onEnter |-> "1", onLeave |-> "0", onEnterBack |-> "1",
   onLeaveBack |-> "0", onUpdate |-> "index"]

\* Math.round(self.progress * (totalCards - 1)) + 1, progress = p[1]/p[2]
CounterIndex(p, n) == (2 * p[1] * (n - 1) + p[2]) \div (2 * p[2]) + 1

\* The counter after the callbacks evs ran in order; c = [opacity, index].
RECURSIVE RunCounterCallbacks(_, _, _)
RunCounterCallbacks(evs, c, idx) ==
  IF evs = <<>> THEN c
  ELSE LET h == CounterHandlers[Head(evs)]
           c2 == IF h = "index" THEN [c EXCEPT !.index = idx]
                 ELSE IF h = "keep" THEN c
                 ELSE [c EXCEPT !.opacity = h]
       IN RunCounterCallbacks(Tail(evs), c2, idx)

\* One scroll-engine tick on the desktop gallery page: the position moves to
\* p, the "scroll" listeners run ScrollTrigger.update() and the counter's
\* trigger fires its callbacks.  end: `+=${track.scrollWidth - innerWidth}`.
CounterTick(p) ==
  /\ LenisEmit(p)
  /\ LET end == counterStart + PinEndDistance
         evs == RangeEvents(counterState, scroll, counterStart, end, p)
         c == RunCounterCallbacks(
                evs, [opacity |-> counterOpacity, index |-> counterIndex],
                CounterIndex(RangeProgress(counterStart, end, p),
                             counterCards))
     IN /\ counterState' = RangeState(counterStart, end, p)
        /\ counterOpacity' = c.opacity
        /\ counterIndex' = c.index
  /\ UNCHANGED <<counterStart, counterCards>>
  /\ UNCHANGED <<varsHScroll, varsPage, varsBoot, varsAux, lenisLimit,
                 lenisResizes, lastScrollY, isHidden, ticking, headerRafQueue,
                 samplesThisFrame, lastSample, prevLastScrollY, prevIsHidden,
                 magClosures, magneticEls, magTransforms, pointerEventsLeft,
                 addMagneticCalls, activeItems, ariaExpanded, ariaShown,
                 accContent, accFocus, lastToggle, initAllModulesCalls,
                 fontsResolved, imgCount, imgLoaded, imgWaiting,
                 imagesResolved, fallbackArmed, gaugeStarted, gaugeFrames,
                 gaugeNow, psiStart, psiProgress, currentPSI, prevPSI,
                 settleSkew, settleTransform, settleEventsLeft,
                 settleReturned, settleWasSkewed>>


(***************************************************************************)
(* The velocity skew over unboundedly many frames (initVelocityBlur), with *)
(* the skew kept in fixed point.                                           *)
(***************************************************************************)
SkewUnits == 10000     \* motionProxy.skew is kept in 1/SkewUnits degree
MaxScrollEvents == 2   \* scroll events admitted

\* Math.max(-2, Math.min(scrollVelocity * 0.15, 2)) in 1/SkewUnits degree
TargetSkewFixed(v) == (TargetSkew(v) * SkewUnits) \div SkewDen

\* Faulty variant: below the threshold the transform is left as it is.
SkewStyleNoClear(skew, old) ==
  IF Abs(skew) > SkewUnits \div 100 THEN "skewY" ELSE old

\* if (Math.abs(motionProxy.skew) > 0.01) transform = skewY(...) else
\* transform = "", on every motion target
SkewStyle(skew, old) ==
  IF Abs(skew) > SkewUnits \div 100 THEN "skewY" ELSE ""

\* The Lenis "scroll" event at position p, the only place that writes
\* scrollVelocity.
SettleScrollEvent(p) ==
  /\ settleEventsLeft > 0
  /\ LenisEmit(p)
  /\ settleEventsLeft' = settleEventsLeft - 1
  /\ UNCHANGED <<settleSkew, settleTransform, settleReturned, settleWasSkewed>>
  /\ UNCHANGED <<varsHScroll, varsPage, varsBoot, varsAux, lenisLimit,
                 lenisResizes, lastScrollY, isHidden, ticking, headerRafQueue,
                 samplesThisFrame, lastSample, prevLastScrollY, prevIsHidden,
                 magClosures, magneticEls, magTransforms, pointerEventsLeft,
                 addMagneticCalls, activeItems, ariaExpanded, ariaShown,
                 accContent, accFocus, lastToggle, initAllModulesCalls,
                 fontsResolved, imgCount, imgLoaded, imgWaiting,
                 imagesResolved, fallbackArmed, gaugeStarted, gaugeFrames,
                 gaugeNow, psiStart, psiProgress, currentPSI, prevPSI,
                 counterOpacity, counterState, counterStart, counterCards,
                 counterIndex>>

\* The ticker callback of initVelocityBlur on a frame without scroll event.
SettleFrame ==
  /\ settleSkew' = LerpFixed(settleSkew, TargetSkewFixed(scrollVelocity),
                             LerpRate("skew"))
  /\ settleTransform' = SkewStyle(settleSkew', settleTransform)
  /\ settleWasSkewed' = (settleWasSkewed \/ settleTransform' = "skewY")
  /\ UNCHANGED <<settleEventsLeft, settleReturned>>
  /\ UNCHANGED <<varsTrigger, varsHScroll, varsPage, varsBoot, varsAux,
                 lenisLimit, lenisResizes, lastScrollY, isHidden, ticking,
                 headerRafQueue, samplesThisFrame, lastSample,
                 prevLastScrollY, prevIsHidden, magClosures, magneticEls,
                 magTransforms, pointerEventsLeft, addMagneticCalls,
                 activeItems, ariaExpanded, ariaShown, accContent, accFocus,
                 lastToggle, initAllModulesCalls, fontsResolved, imgCount,
                 imgLoaded, imgWaiting, imagesResolved, fallbackArmed,
                 gaugeStarted, gaugeFrames, gaugeNow, psiStart, psiProgress,
                 currentPSI, prevPSI, counterOpacity, counterState,
                 counterStart, counterCards, counterIndex>>

\* getScrollVelocity(): return scrollVelocity
GetScrollVelocity ==
  /\ settleReturned' = scrollVelocity
  /\ settleReturned' # settleReturned
  /\ UNCHANGED <<settleSkew, settleTransform, settleEventsLeft, settleWasSkewed>>
  /\ UNCHANGED <<varsTrigger, varsHScroll, varsPage, varsBoot, varsAux,
                 lenisLimit, lenisResizes, lastScrollY, isHidden, ticking,
                 headerRafQueue, samplesThisFrame, lastSample,
                 prevLastScrollY, prevIsHidden, magClosures, magneticEls,
                 magTransforms, pointerEventsLeft, addMagneticCalls,
                 activeItems, ariaExpanded, ariaShown, accContent, accFocus,
                 lastToggle, initAllModulesCalls, fontsResolved, imgCount,
                 imgLoaded, imgWaiting, imagesResolved, fallbackArmed,
                 gaugeStarted, gaugeFrames, gaugeNow, psiStart, psiProgress,
                 currentPSI, prevPSI, counterOpacity, counterState,
                 counterStart, counterCards, counterIndex>>


(***************************************************************************)
(* Initial states and specifications.                                      *)
(***************************************************************************)
\* Each initial state gives every variable a value; the parts a
\* specification does not exercise start, and stay, at their idle values.

\* After initSmoothScroll and initAnimations: both listeners registered and
\* the reveal triggers created at scroll position 0.
InitTrigger ==
  /\ scroll = 0
  /\ prevScroll = 0
  /\ scrollVelocity = 0
  /\ revealStart \in [Reveals -> -1..MaxScroll]
  /\ revealState = [i \in Reveals |-> TriggerState("Before", revealStart[i], 0)]
  /\ revealSeen = [i \in Reveals |-> 0]
  /\ enterFired = [i \in Reveals |-> 0]
  /\ leaveBackFired = [i \in Reveals |-> 0]
  /\ updateCalls = 0
  /\ trackW = 0
  /\ viewW = 1
  /\ pinLength = 0
  /\ tweenEndX = 0
  /\ pinProgress = 0
  /\ tweenProgress = 0
  /\ trackXScaled = 0
  /\ timers = {}
  /\ resizeTimeout = -1
  /\ sinceResize = -1
  /\ refreshesSinceResize = 0
  /\ lastRefreshGap = -1
  /\ burstResizes = 0
  /\ pagePhase = "loaded"
  /\ docHidden = FALSE
  /\ now = 0
  /\ env = NoEnv
  /\ shaderExit = "uninit"
  /\ heroStylePos0 = ""
  /\ heroStylePos = ""
  /\ canvasInHero = FALSE
  /\ canvasesCreated = 0
  /\ shaderListeners = {}
  /\ shaderRafPending = 0
  /\ shaderRafId = "null"
  /\ shaderIsVisible = TRUE
  /\ startTime = 0
  /\ uTime = -1
  /\ lastDeltaTime = 0
  /\ lastGapHidden = 0
  /\ lastGapWall = 0
  /\ hiddenAccum = 0
  /\ lastDrawAt = 0
  /\ framesDrawn = 0
  /\ cleanupCalls = 0
  /\ rendersAfterCleanup = 0
  /\ cursorOn = FALSE
  /\ cursorRafPending = 0
  /\ cursorRafId = "null"
  /\ cursorIsVisible = TRUE
  /\ hscrollMode = "none"
  /\ dom = NoDom
  /\ invoked = <<>>
  /\ threwAt = "none"
  /\ handlerThrew = "none"
  /\ activeDot = 0
  /\ hscrollSnap = {}
  /\ prefersReducedMotion = FALSE
  /\ fontsPending = FALSE
  /\ animSets = {}
  /\ animEffects = {}
  /\ prefAtReady = FALSE
  /\ contentLength = 1
  /\ requestsLeft = 0
  /\ enginePos = 0
  /\ animFrom = 0
  /\ animTo = 0
  /\ animElapsed = 0
  /\ animActive = FALSE
  /\ easeValue = 0
  /\ lastRequestRaw = 0
  /\ lastHref = <<>>
  /\ clickThrew = FALSE
  /\ clickScrollTo = FALSE
  /\ skewNum = 0
  /\ skewFrames = 0
  /\ targetNum = 0
  /\ velocityRead = 0
  /\ styleWrites = 0
  /\ lerpKind = "skew"
  /\ lerpTarget = 0
  /\ lerpNum = 0
  /\ lerpN = 0
  /\ lerpSteady = TRUE
  /\ lenisLimit = PageLength
  /\ lenisResizes = 0
  /\ lastScrollY = 0
  /\ magClosures = <<>>
  /\ activeItems = {}
  /\ initAllModulesCalls = 0
  /\ counterOpacity = "0"
  /\ settleSkew = 0
  /\ isHidden = FALSE
  /\ ticking = FALSE
  /\ headerRafQueue = <<>>
  /\ samplesThisFrame = 0
  /\ lastSample = -1
  /\ prevLastScrollY = 0
  /\ prevIsHidden = FALSE
  /\ magneticEls = <<>>
  /\ magTransforms = [el \in MagElements |-> {}]
  /\ pointerEventsLeft = 0
  /\ addMagneticCalls = 0
  /\ ariaExpanded = {}
  /\ ariaShown = {}
  /\ accContent = {}
  /\ accFocus = -1
  /\ lastToggle = [item |-> -1, wasActive |-> FALSE]
  /\ fontsResolved = FALSE
  /\ imgCount = 0
  /\ imgLoaded = 0
  /\ imgWaiting = 0
  /\ imagesResolved = FALSE
  /\ fallbackArmed = FALSE
  /\ gaugeStarted = FALSE
  /\ gaugeFrames = 0
  /\ gaugeNow = 1
  /\ psiStart = -1
  /\ psiProgress = 0
  /\ currentPSI = 0
  /\ prevPSI = 0
  /\ counterState = "Before"
  /\ counterStart = 0
  /\ counterCards = 1
  /\ counterIndex = 1
  /\ settleTransform = ""
  /\ settleEventsLeft = 0
  /\ settleReturned = 0
  /\ settleWasSkewed = FALSE

\* After initDesktopScroll on a layout of track width trackW and viewport
\* width viewW.
InitHScroll ==
  /\ trackW \in 0..MaxWidth
  /\ viewW \in 1..MaxWidth
  /\ pinLength = PinEndDistance
  /\ tweenEndX = getScrollAmount
  /\ pinProgress = 0
  /\ tweenProgress = 0
  /\ trackXScaled = 0
  /\ timers = {}
  /\ resizeTimeout = -1
  /\ sinceResize = -1
  /\ refreshesSinceResize = 0
  /\ lastRefreshGap = -1
  /\ burstResizes = 0
  /\ scroll = 0
  /\ prevScroll = 0
  /\ scrollVelocity = 0
  /\ revealStart = [i \in Reveals |-> 0]
  /\ revealState = [i \in Reveals |-> "Before"]
  /\ revealSeen = [i \in Reveals |-> 0]
  /\ enterFired = [i \in Reveals |-> 0]
  /\ leaveBackFired = [i \in Reveals |-> 0]
  /\ updateCalls = 0
  /\ pagePhase = "loaded"
  /\ docHidden = FALSE
  /\ now = 0
  /\ env = NoEnv
  /\ shaderExit = "uninit"
  /\ heroStylePos0 = ""
  /\ heroStylePos = ""
  /\ canvasInHero = FALSE
  /\ canvasesCreated = 0
  /\ shaderListeners = {}
  /\ shaderRafPending = 0
  /\ shaderRafId = "null"
  /\ shaderIsVisible = TRUE
  /\ startTime = 0
  /\ uTime = -1
  /\ lastDeltaTime = 0
  /\ lastGapHidden = 0
  /\ lastGapWall = 0
  /\ hiddenAccum = 0
  /\ lastDrawAt = 0
  /\ framesDrawn = 0
  /\ cleanupCalls = 0
  /\ rendersAfterCleanup = 0
  /\ cursorOn = FALSE
  /\ cursorRafPending = 0
  /\ cursorRafId = "null"
  /\ cursorIsVisible = TRUE
  /\ hscrollMode = "none"
  /\ dom = NoDom
  /\ invoked = <<>>
  /\ threwAt = "none"
  /\ handlerThrew = "none"
  /\ activeDot = 0
  /\ hscrollSnap = {}
  /\ prefersReducedMotion = FALSE
  /\ fontsPending = FALSE
  /\ animSets = {}
  /\ animEffects = {}
  /\ prefAtReady = FALSE
  /\ contentLength = 1
  /\ requestsLeft = 0
  /\ enginePos = 0
  /\ animFrom = 0
  /\ animTo = 0
  /\ animElapsed = 0
  /\ animActive = FALSE
  /\ easeValue = 0
  /\ lastRequestRaw = 0
  /\ lastHref = <<>>
  /\ clickThrew = FALSE
  /\ clickScrollTo = FALSE
  /\ skewNum = 0
  /\ skewFrames = 0
  /\ targetNum = 0
  /\ velocityRead = 0
  /\ styleWrites = 0
  /\ lerpKind = "skew"
  /\ lerpTarget = 0
  /\ lerpNum = 0
  /\ lerpN = 0
  /\ lerpSteady = TRUE
  /\ lenisLimit = LimitAfterRefresh(PageLength, trackW - viewW)
  /\ lenisResizes = 0
  /\ lastScrollY = 0
  /\ magClosures = <<>>
  /\ activeItems = {}
  /\ initAllModulesCalls = 0
  /\ counterOpacity = "0"
  /\ settleSkew = 0
  /\ isHidden = FALSE
  /\ ticking = FALSE
  /\ headerRafQueue = <<>>
  /\ samplesThisFrame = 0
  /\ lastSample = -1
  /\ prevLastScrollY = 0
  /\ prevIsHidden = FALSE
  /\ magneticEls = <<>>
  /\ magTransforms = [el \in MagElements |-> {}]
  /\ pointerEventsLeft = 0
  /\ addMagneticCalls = 0
  /\ ariaExpanded = {}
  /\ ariaShown = {}
  /\ accContent = {}
  /\ accFocus = -1
  /\ lastToggle = [item |-> -1, wasActive |-> FALSE]
  /\ fontsResolved = FALSE
  /\ imgCount = 0
  /\ imgLoaded = 0
  /\ imgWaiting = 0
  /\ imagesResolved = FALSE
  /\ fallbackArmed = FALSE
  /\ gaugeStarted = FALSE
  /\ gaugeFrames = 0
  /\ gaugeNow = 1
  /\ psiStart = -1
  /\ psiProgress = 0
  /\ currentPSI = 0
  /\ prevPSI = 0
  /\ counterState = "Before"
  /\ counterStart = 0
  /\ counterCards = 1
  /\ counterIndex = 1
  /\ settleTransform = ""
  /\ settleEventsLeft = 0
  /\ settleReturned = 0
  /\ settleWasSkewed = FALSE

\* The page is loaded and the loader has not yet called initAllModules.
InitPage ==
  /\ pagePhase = "loaded"
  /\ docHidden = FALSE
  /\ now = 0
  /\ env = NoEnv
  /\ shaderExit = "uninit"
  /\ heroStylePos0 = ""
  /\ heroStylePos = ""
  /\ canvasInHero = FALSE
  /\ canvasesCreated = 0
  /\ shaderListeners = {}
  /\ shaderRafPending = 0
  /\ shaderRafId = "null"
  /\ shaderIsVisible = TRUE
  /\ startTime = 0
  /\ uTime = -1
  /\ lastDeltaTime = 0
  /\ lastGapHidden = 0
  /\ lastGapWall = 0
  /\ hiddenAccum = 0
  /\ lastDrawAt = 0
  /\ framesDrawn = 0
  /\ cleanupCalls = 0
  /\ rendersAfterCleanup = 0
  /\ cursorOn = FALSE
  /\ cursorRafPending = 0
  /\ cursorRafId = "null"
  /\ cursorIsVisible = TRUE
  /\ hscrollMode = "none"
  /\ dom = NoDom
  /\ invoked = <<>>
  /\ threwAt = "none"
  /\ handlerThrew = "none"
  /\ activeDot = 0
  /\ hscrollSnap = {}
  /\ prefersReducedMotion = FALSE
  /\ fontsPending = FALSE
  /\ animSets = {}
  /\ animEffects = {}
  /\ prefAtReady = FALSE
  /\ scroll = 0
  /\ prevScroll = 0
  /\ scrollVelocity = 0
  /\ revealStart = [i \in Reveals |-> 0]
  /\ revealState = [i \in Reveals |-> "Before"]
  /\ revealSeen = [i \in Reveals |-> 0]
  /\ enterFired = [i \in Reveals |-> 0]
  /\ leaveBackFired = [i \in Reveals |-> 0]
  /\ updateCalls = 0
  /\ trackW = 0
  /\ viewW = 1
  /\ pinLength = 0
  /\ tweenEndX = 0
  /\ pinProgress = 0
  /\ tweenProgress = 0
  /\ trackXScaled = 0
  /\ timers = {}
  /\ resizeTimeout = -1
  /\ sinceResize = -1
  /\ refreshesSinceResize = 0
  /\ lastRefreshGap = -1
  /\ burstResizes = 0
  /\ contentLength = 1
  /\ requestsLeft = 0
  /\ enginePos = 0
  /\ animFrom = 0
  /\ animTo = 0
  /\ animElapsed = 0
  /\ animActive = FALSE
  /\ easeValue = 0
  /\ lastRequestRaw = 0
  /\ lastHref = <<>>
  /\ clickThrew = FALSE
  /\ clickScrollTo = FALSE
  /\ skewNum = 0
  /\ skewFrames = 0
  /\ targetNum = 0
  /\ velocityRead = 0
  /\ styleWrites = 0
  /\ lerpKind = "skew"
  /\ lerpTarget = 0
  /\ lerpNum = 0
  /\ lerpN = 0
  /\ lerpSteady = TRUE
  /\ lenisLimit = PageLength
  /\ lenisResizes = 0
  /\ lastScrollY = 0
  /\ magClosures = <<>>
  /\ activeItems = {}
  /\ initAllModulesCalls = 0
  /\ counterOpacity = "0"
  /\ settleSkew = 0
  /\ isHidden = FALSE
  /\ ticking = FALSE
  /\ headerRafQueue = <<>>
  /\ samplesThisFrame = 0
  /\ lastSample = -1
  /\ prevLastScrollY = 0
  /\ prevIsHidden = FALSE
  /\ magneticEls = <<>>
  /\ magTransforms = [el \in MagElements |-> {}]
  /\ pointerEventsLeft = 0
  /\ addMagneticCalls = 0
  /\ ariaExpanded = {}
  /\ ariaShown = {}
  /\ accContent = {}
  /\ accFocus = -1
  /\ lastToggle = [item |-> -1, wasActive |-> FALSE]
  /\ fontsResolved = FALSE
  /\ imgCount = 0
  /\ imgLoaded = 0
  /\ imgWaiting = 0
  /\ imagesResolved = FALSE
  /\ fallbackArmed = FALSE
  /\ gaugeStarted = FALSE
  /\ gaugeFrames = 0
  /\ gaugeNow = 1
  /\ psiStart = -1
  /\ psiProgress = 0
  /\ currentPSI = 0
  /\ prevPSI = 0
  /\ counterState = "Before"
  /\ counterStart = 0
  /\ counterCards = 1
  /\ counterIndex = 1
  /\ settleTransform = ""
  /\ settleEventsLeft = 0
  /\ settleReturned = 0
  /\ settleWasSkewed = FALSE

\* The loader's gauge has reached its end; completeLoading is due.
InitBoot ==
  /\ pagePhase = "loaded"
  /\ docHidden = FALSE
  /\ now = 0
  /\ env = NoEnv
  /\ shaderExit = "uninit"
  /\ heroStylePos0 = ""
  /\ heroStylePos = ""
  /\ canvasInHero = FALSE
  /\ canvasesCreated = 0
  /\ shaderListeners = {}
  /\ shaderRafPending = 0
  /\ shaderRafId = "null"
  /\ shaderIsVisible = TRUE
  /\ startTime = 0
  /\ uTime = -1
  /\ lastDeltaTime = 0
  /\ lastGapHidden = 0
  /\ lastGapWall = 0
  /\ hiddenAccum = 0
  /\ lastDrawAt = 0
  /\ framesDrawn = 0
  /\ cleanupCalls = 0
  /\ rendersAfterCleanup = 0
  /\ cursorOn = FALSE
  /\ cursorRafPending = 0
  /\ cursorRafId = "null"
  /\ cursorIsVisible = TRUE
  /\ hscrollMode = "none"
  /\ dom = NoDom
  /\ invoked = <<>>
  /\ threwAt = "none"
  /\ handlerThrew = "none"
  /\ activeDot = 0
  /\ hscrollSnap = {}
  /\ prefersReducedMotion = FALSE
  /\ fontsPending = FALSE
  /\ animSets = {}
  /\ animEffects = {}
  /\ prefAtReady = FALSE
  /\ scroll = 0
  /\ prevScroll = 0
  /\ scrollVelocity = 0
  /\ revealStart = [i \in Reveals |-> 0]
  /\ revealState = [i \in Reveals |-> "Before"]
  /\ revealSeen = [i \in Reveals |-> 0]
  /\ enterFired = [i \in Reveals |-> 0]
  /\ leaveBackFired = [i \in Reveals |-> 0]
  /\ updateCalls = 0
  /\ trackW = 0
  /\ viewW = 1
  /\ pinLength = 0
  /\ tweenEndX = 0
  /\ pinProgress = 0
  /\ tweenProgress = 0
  /\ trackXScaled = 0
  /\ timers = {}
  /\ resizeTimeout = -1
  /\ sinceResize = -1
  /\ refreshesSinceResize = 0
  /\ lastRefreshGap = -1
  /\ burstResizes = 0
  /\ contentLength = 1
  /\ requestsLeft = 0
  /\ enginePos = 0
  /\ animFrom = 0
  /\ animTo = 0
  /\ animElapsed = 0
  /\ animActive = FALSE
  /\ easeValue = 0
  /\ lastRequestRaw = 0
  /\ lastHref = <<>>
  /\ clickThrew = FALSE
  /\ clickScrollTo = FALSE
  /\ skewNum = 0
  /\ skewFrames = 0
  /\ targetNum = 0
  /\ velocityRead = 0
  /\ styleWrites = 0
  /\ lerpKind = "skew"
  /\ lerpTarget = 0
  /\ lerpNum = 0
  /\ lerpN = 0
  /\ lerpSteady = TRUE
  /\ lenisLimit = PageLength
  /\ lenisResizes = 0
  /\ lastScrollY = 0
  /\ magClosures = <<>>
  /\ activeItems = {}
  /\ initAllModulesCalls = 0
  /\ counterOpacity = "0"
  /\ settleSkew = 0
  /\ isHidden = FALSE
  /\ ticking = FALSE
  /\ headerRafQueue = <<>>
  /\ samplesThisFrame = 0
  /\ lastSample = -1
  /\ prevLastScrollY = 0
  /\ prevIsHidden = FALSE
  /\ magneticEls = <<>>
  /\ magTransforms = [el \in MagElements |-> {}]
  /\ pointerEventsLeft = 0
  /\ addMagneticCalls = 0
  /\ ariaExpanded = {}
  /\ ariaShown = {}
  /\ accContent = {}
  /\ accFocus = -1
  /\ lastToggle = [item |-> -1, wasActive |-> FALSE]
  /\ fontsResolved = FALSE
  /\ imgCount = 0
  /\ imgLoaded = 0
  /\ imgWaiting = 0
  /\ imagesResolved = FALSE
  /\ fallbackArmed = FALSE
  /\ gaugeStarted = FALSE
  /\ gaugeFrames = 0
  /\ gaugeNow = 1
  /\ psiStart = -1
  /\ psiProgress = 0
  /\ currentPSI = 0
  /\ prevPSI = 0
  /\ counterState = "Before"
  /\ counterStart = 0
  /\ counterCards = 1
  /\ counterIndex = 1
  /\ settleTransform = ""
  /\ settleEventsLeft = 0
  /\ settleReturned = 0
  /\ settleWasSkewed = FALSE

\* After initSmoothScroll: the engine at rest at the top of a page with
\* scroll limit contentLength.
InitEngine ==
  /\ contentLength \in 1..MaxContent
  /\ requestsLeft = MaxRequests
  /\ enginePos = 0
  /\ animFrom = 0
  /\ animTo = 0
  /\ animElapsed = 0
  /\ animActive = FALSE
  /\ easeValue = 0
  /\ lastRequestRaw = 0
  /\ lastHref = <<>>
  /\ clickThrew = FALSE
  /\ clickScrollTo = FALSE
  /\ scroll = 0
  /\ prevScroll = 0
  /\ scrollVelocity = 0
  /\ revealStart = [i \in Reveals |-> 0]
  /\ revealState = [i \in Reveals |-> "Before"]
  /\ revealSeen = [i \in Reveals |-> 0]
  /\ enterFired = [i \in Reveals |-> 0]
  /\ leaveBackFired = [i \in Reveals |-> 0]
  /\ updateCalls = 0
  /\ trackW = 0
  /\ viewW = 1
  /\ pinLength = 0
  /\ tweenEndX = 0
  /\ pinProgress = 0
  /\ tweenProgress = 0
  /\ trackXScaled = 0
  /\ timers = {}
  /\ resizeTimeout = -1
  /\ sinceResize = -1
  /\ refreshesSinceResize = 0
  /\ lastRefreshGap = -1
  /\ burstResizes = 0
  /\ pagePhase = "loaded"
  /\ docHidden = FALSE
  /\ now = 0
  /\ env = NoEnv
  /\ shaderExit = "uninit"
  /\ heroStylePos0 = ""
  /\ heroStylePos = ""
  /\ canvasInHero = FALSE
  /\ canvasesCreated = 0
  /\ shaderListeners = {}
  /\ shaderRafPending = 0
  /\ shaderRafId = "null"
  /\ shaderIsVisible = TRUE
  /\ startTime = 0
  /\ uTime = -1
  /\ lastDeltaTime = 0
  /\ lastGapHidden = 0
  /\ lastGapWall = 0
  /\ hiddenAccum = 0
  /\ lastDrawAt = 0
  /\ framesDrawn = 0
  /\ cleanupCalls = 0
  /\ rendersAfterCleanup = 0
  /\ cursorOn = FALSE
  /\ cursorRafPending = 0
  /\ cursorRafId = "null"
  /\ cursorIsVisible = TRUE
  /\ hscrollMode = "none"
  /\ dom = NoDom
  /\ invoked = <<>>
  /\ threwAt = "none"
  /\ handlerThrew = "none"
  /\ activeDot = 0
  /\ hscrollSnap = {}
  /\ prefersReducedMotion = FALSE
  /\ fontsPending = FALSE
  /\ animSets = {}
  /\ animEffects = {}
  /\ prefAtReady = FALSE
  /\ skewNum = 0
  /\ skewFrames = 0
  /\ targetNum = 0
  /\ velocityRead = 0
  /\ styleWrites = 0
  /\ lerpKind = "skew"
  /\ lerpTarget = 0
  /\ lerpNum = 0
  /\ lerpN = 0
  /\ lerpSteady = TRUE
  /\ lenisLimit = PageLength
  /\ lenisResizes = 0
  /\ lastScrollY = 0
  /\ magClosures = <<>>
  /\ activeItems = {}
  /\ initAllModulesCalls = 0
  /\ counterOpacity = "0"
  /\ settleSkew = 0
  /\ isHidden = FALSE
  /\ ticking = FALSE
  /\ headerRafQueue = <<>>
  /\ samplesThisFrame = 0
  /\ lastSample = -1
  /\ prevLastScrollY = 0
  /\ prevIsHidden = FALSE
  /\ magneticEls = <<>>
  /\ magTransforms = [el \in MagElements |-> {}]
  /\ pointerEventsLeft = 0
  /\ addMagneticCalls = 0
  /\ ariaExpanded = {}
  /\ ariaShown = {}
  /\ accContent = {}
  /\ accFocus = -1
  /\ lastToggle = [item |-> -1, wasActive |-> FALSE]
  /\ fontsResolved = FALSE
  /\ imgCount = 0
  /\ imgLoaded = 0
  /\ imgWaiting = 0
  /\ imagesResolved = FALSE
  /\ fallbackArmed = FALSE
  /\ gaugeStarted = FALSE
  /\ gaugeFrames = 0
  /\ gaugeNow = 1
  /\ psiStart = -1
  /\ psiProgress = 0
  /\ currentPSI = 0
  /\ prevPSI = 0
  /\ counterState = "Before"
  /\ counterStart = 0
  /\ counterCards = 1
  /\ counterIndex = 1
  /\ settleTransform = ""
  /\ settleEventsLeft = 0
  /\ settleReturned = 0
  /\ settleWasSkewed = FALSE

\* After initAnimations and the fonts: the skew proxy at 0, the page at the
\* top.
InitMotion ==
  /\ skewNum = 0
  /\ skewFrames = 0
  /\ targetNum = 0
  /\ velocityRead = 0
  /\ styleWrites = 0
  /\ scroll = 0
  /\ prevScroll = 0
  /\ scrollVelocity = 0
  /\ revealStart = [i \in Reveals |-> 0]
  /\ revealState = [i \in Reveals |-> "Before"]
  /\ revealSeen = [i \in Reveals |-> 0]
  /\ enterFired = [i \in Reveals |-> 0]
  /\ leaveBackFired = [i \in Reveals |-> 0]
  /\ updateCalls = 0
  /\ trackW = 0
  /\ viewW = 1
  /\ pinLength = 0
  /\ tweenEndX = 0
  /\ pinProgress = 0
  /\ tweenProgress = 0
  /\ trackXScaled = 0
  /\ timers = {}
  /\ resizeTimeout = -1
  /\ sinceResize = -1
  /\ refreshesSinceResize = 0
  /\ lastRefreshGap = -1
  /\ burstResizes = 0
  /\ pagePhase = "loaded"
  /\ docHidden = FALSE
  /\ now = 0
  /\ env = NoEnv
  /\ shaderExit = "uninit"
  /\ heroStylePos0 = ""
  /\ heroStylePos = ""
  /\ canvasInHero = FALSE
  /\ canvasesCreated = 0
  /\ shaderListeners = {}
  /\ shaderRafPending = 0
  /\ shaderRafId = "null"
  /\ shaderIsVisible = TRUE
  /\ startTime = 0
  /\ uTime = -1
  /\ lastDeltaTime = 0
  /\ lastGapHidden = 0
  /\ lastGapWall = 0
  /\ hiddenAccum = 0
  /\ lastDrawAt = 0
  /\ framesDrawn = 0
  /\ cleanupCalls = 0
  /\ rendersAfterCleanup = 0
  /\ cursorOn = FALSE
  /\ cursorRafPending = 0
  /\ cursorRafId = "null"
  /\ cursorIsVisible = TRUE
  /\ hscrollMode = "none"
  /\ dom = NoDom
  /\ invoked = <<>>
  /\ threwAt = "none"
  /\ handlerThrew = "none"
  /\ activeDot = 0
  /\ hscrollSnap = {}
  /\ prefersReducedMotion = FALSE
  /\ fontsPending = FALSE
  /\ animSets = {}
  /\ animEffects = {}
  /\ prefAtReady = FALSE
  /\ contentLength = 1
  /\ requestsLeft = 0
  /\ enginePos = 0
  /\ animFrom = 0
  /\ animTo = 0
  /\ animElapsed = 0
  /\ animActive = FALSE
  /\ easeValue = 0
  /\ lastRequestRaw = 0
  /\ lastHref = <<>>
  /\ clickThrew = FALSE
  /\ clickScrollTo = FALSE
  /\ lerpKind = "skew"
  /\ lerpTarget = 0
  /\ lerpNum = 0
  /\ lerpN = 0
  /\ lerpSteady = TRUE
  /\ lenisLimit = PageLength
  /\ lenisResizes = 0
  /\ lastScrollY = 0
  /\ magClosures = <<>>
  /\ activeItems = {}
  /\ initAllModulesCalls = 0
  /\ counterOpacity = "0"
  /\ settleSkew = 0
  /\ isHidden = FALSE
  /\ ticking = FALSE
  /\ headerRafQueue = <<>>
  /\ samplesThisFrame = 0
  /\ lastSample = -1
  /\ prevLastScrollY = 0
  /\ prevIsHidden = FALSE
  /\ magneticEls = <<>>
  /\ magTransforms = [el \in MagElements |-> {}]
  /\ pointerEventsLeft = 0
  /\ addMagneticCalls = 0
  /\ ariaExpanded = {}
  /\ ariaShown = {}
  /\ accContent = {}
  /\ accFocus = -1
  /\ lastToggle = [item |-> -1, wasActive |-> FALSE]
  /\ fontsResolved = FALSE
  /\ imgCount = 0
  /\ imgLoaded = 0
  /\ imgWaiting = 0
  /\ imagesResolved = FALSE
  /\ fallbackArmed = FALSE
  /\ gaugeStarted = FALSE
  /\ gaugeFrames = 0
  /\ gaugeNow = 1
  /\ psiStart = -1
  /\ psiProgress = 0
  /\ currentPSI = 0
  /\ prevPSI = 0
  /\ counterState = "Before"
  /\ counterStart = 0
  /\ counterCards = 1
  /\ counterIndex = 1
  /\ settleTransform = ""
  /\ settleEventsLeft = 0
  /\ settleReturned = 0
  /\ settleWasSkewed = FALSE

\* A smoothed value at 0 with a target.
InitLerp ==
  /\ lerpKind \in LerpKinds
  /\ lerpTarget \in -MaxTarget..MaxTarget
  /\ lerpNum = 0
  /\ lerpN = 0
  /\ lerpSteady = TRUE
  /\ scroll = 0
  /\ prevScroll = 0
  /\ scrollVelocity = 0
  /\ revealStart = [i \in Reveals |-> 0]
  /\ revealState = [i \in Reveals |-> "Before"]
  /\ revealSeen = [i \in Reveals |-> 0]
  /\ enterFired = [i \in Reveals |-> 0]
  /\ leaveBackFired = [i \in Reveals |-> 0]
  /\ updateCalls = 0
  /\ trackW = 0
  /\ viewW = 1
  /\ pinLength = 0
  /\ tweenEndX = 0
  /\ pinProgress = 0
  /\ tweenProgress = 0
  /\ trackXScaled = 0
  /\ timers = {}
  /\ resizeTimeout = -1
  /\ sinceResize = -1
  /\ refreshesSinceResize = 0
  /\ lastRefreshGap = -1
  /\ burstResizes = 0
  /\ pagePhase = "loaded"
  /\ docHidden = FALSE
  /\ now = 0
  /\ env = NoEnv
  /\ shaderExit = "uninit"
  /\ heroStylePos0 = ""
  /\ heroStylePos = ""
  /\ canvasInHero = FALSE
  /\ canvasesCreated = 0
  /\ shaderListeners = {}
  /\ shaderRafPending = 0
  /\ shaderRafId = "null"
  /\ shaderIsVisible = TRUE
  /\ startTime = 0
  /\ uTime = -1
  /\ lastDeltaTime = 0
  /\ lastGapHidden = 0
  /\ lastGapWall = 0
  /\ hiddenAccum = 0
  /\ lastDrawAt = 0
  /\ framesDrawn = 0
  /\ cleanupCalls = 0
  /\ rendersAfterCleanup = 0
  /\ cursorOn = FALSE
  /\ cursorRafPending = 0
  /\ cursorRafId = "null"
  /\ cursorIsVisible = TRUE
  /\ hscrollMode = "none"
  /\ dom = NoDom
  /\ invoked = <<>>
  /\ threwAt = "none"
  /\ handlerThrew = "none"
  /\ activeDot = 0
  /\ hscrollSnap = {}
  /\ prefersReducedMotion = FALSE
  /\ fontsPending = FALSE
  /\ animSets = {}
  /\ animEffects = {}
  /\ prefAtReady = FALSE
  /\ contentLength = 1
  /\ requestsLeft = 0
  /\ enginePos = 0
  /\ animFrom = 0
  /\ animTo = 0
  /\ animElapsed = 0
  /\ animActive = FALSE
  /\ easeValue = 0
  /\ lastRequestRaw = 0
  /\ lastHref = <<>>
  /\ clickThrew = FALSE
  /\ clickScrollTo = FALSE
  /\ skewNum = 0
  /\ skewFrames = 0
  /\ targetNum = 0
  /\ velocityRead = 0
  /\ styleWrites = 0
  /\ lenisLimit = PageLength
  /\ lenisResizes = 0
  /\ lastScrollY = 0
  /\ magClosures = <<>>
  /\ activeItems = {}
  /\ initAllModulesCalls = 0
  /\ counterOpacity = "0"
  /\ settleSkew = 0
  /\ isHidden = FALSE
  /\ ticking = FALSE
  /\ headerRafQueue = <<>>
  /\ samplesThisFrame = 0
  /\ lastSample = -1
  /\ prevLastScrollY = 0
  /\ prevIsHidden = FALSE
  /\ magneticEls = <<>>
  /\ magTransforms = [el \in MagElements |-> {}]
  /\ pointerEventsLeft = 0
  /\ addMagneticCalls = 0
  /\ ariaExpanded = {}
  /\ ariaShown = {}
  /\ accContent = {}
  /\ accFocus = -1
  /\ lastToggle = [item |-> -1, wasActive |-> FALSE]
  /\ fontsResolved = FALSE
  /\ imgCount = 0
  /\ imgLoaded = 0
  /\ imgWaiting = 0
  /\ imagesResolved = FALSE
  /\ fallbackArmed = FALSE
  /\ gaugeStarted = FALSE
  /\ gaugeFrames = 0
  /\ gaugeNow = 1
  /\ psiStart = -1
  /\ psiProgress = 0
  /\ currentPSI = 0
  /\ prevPSI = 0
  /\ counterState = "Before"
  /\ counterStart = 0
  /\ counterCards = 1
  /\ counterIndex = 1
  /\ settleTransform = ""
  /\ settleEventsLeft = 0
  /\ settleReturned = 0
  /\ settleWasSkewed = FALSE

\* After initSmartHeader(lenis): the header shown, nothing scheduled.
InitHeader ==
  /\ scroll = 0
  /\ prevScroll = 0
  /\ scrollVelocity = 0
  /\ revealStart = [i \in Reveals |-> 0]
  /\ revealState = [i \in Reveals |-> "Before"]
  /\ revealSeen = [i \in Reveals |-> 0]
  /\ enterFired = [i \in Reveals |-> 0]
  /\ leaveBackFired = [i \in Reveals |-> 0]
  /\ updateCalls = 0
  /\ trackW = 0
  /\ viewW = 1
  /\ pinLength = 0
  /\ tweenEndX = 0
  /\ pinProgress = 0
  /\ tweenProgress = 0
  /\ trackXScaled = 0
  /\ timers = {}
  /\ resizeTimeout = -1
  /\ sinceResize = -1
  /\ refreshesSinceResize = 0
  /\ lastRefreshGap = -1
  /\ burstResizes = 0
  /\ pagePhase = "loaded"
  /\ docHidden = FALSE
  /\ now = 0
  /\ env = NoEnv
  /\ shaderExit = "uninit"
  /\ heroStylePos0 = ""
  /\ heroStylePos = ""
  /\ canvasInHero = FALSE
  /\ canvasesCreated = 0
  /\ shaderListeners = {}
  /\ shaderRafPending = 0
  /\ shaderRafId = "null"
  /\ shaderIsVisible = TRUE
  /\ startTime = 0
  /\ uTime = -1
  /\ lastDeltaTime = 0
  /\ lastGapHidden = 0
  /\ lastGapWall = 0
  /\ hiddenAccum = 0
  /\ lastDrawAt = 0
  /\ framesDrawn = 0
  /\ cleanupCalls = 0
  /\ rendersAfterCleanup = 0
  /\ cursorOn = FALSE
  /\ cursorRafPending = 0
  /\ cursorRafId = "null"
  /\ cursorIsVisible = TRUE
  /\ hscrollMode = "none"
  /\ dom = NoDom
  /\ invoked = <<>>
  /\ threwAt = "none"
  /\ handlerThrew = "none"
  /\ activeDot = 0
  /\ hscrollSnap = {}
  /\ prefersReducedMotion = FALSE
  /\ fontsPending = FALSE
  /\ animSets = {}
  /\ animEffects = {}
  /\ prefAtReady = FALSE
  /\ contentLength = 1
  /\ requestsLeft = 0
  /\ enginePos = 0
  /\ animFrom = 0
  /\ animTo = 0
  /\ animElapsed = 0
  /\ animActive = FALSE
  /\ easeValue = 0
  /\ lastRequestRaw = 0
  /\ lastHref = <<>>
  /\ clickThrew = FALSE
  /\ clickScrollTo = FALSE
  /\ skewNum = 0
  /\ skewFrames = 0
  /\ targetNum = 0
  /\ velocityRead = 0
  /\ styleWrites = 0
  /\ lerpKind = "skew"
  /\ lerpTarget = 0
  /\ lerpNum = 0
  /\ lerpN = 0
  /\ lerpSteady = TRUE
  /\ lenisLimit = PageLength
  /\ lenisResizes = 0
  /\ lastScrollY = 0
  /\ magClosures = <<>>
  /\ activeItems = {}
  /\ initAllModulesCalls = 0
  /\ counterOpacity = "0"
  /\ settleSkew = 0
  /\ isHidden = FALSE
  /\ ticking = FALSE
  /\ headerRafQueue = <<>>
  /\ samplesThisFrame = 0
  /\ lastSample = -1
  /\ prevLastScrollY = 0
  /\ prevIsHidden = FALSE
  /\ magneticEls = <<>>
  /\ magTransforms = [el \in MagElements |-> {}]
  /\ pointerEventsLeft = 0
  /\ addMagneticCalls = 0
  /\ ariaExpanded = {}
  /\ ariaShown = {}
  /\ accContent = {}
  /\ accFocus = -1
  /\ lastToggle = [item |-> -1, wasActive |-> FALSE]
  /\ fontsResolved = FALSE
  /\ imgCount = 0
  /\ imgLoaded = 0
  /\ imgWaiting = 0
  /\ imagesResolved = FALSE
  /\ fallbackArmed = FALSE
  /\ gaugeStarted = FALSE
  /\ gaugeFrames = 0
  /\ gaugeNow = 1
  /\ psiStart = -1
  /\ psiProgress = 0
  /\ currentPSI = 0
  /\ prevPSI = 0
  /\ counterState = "Before"
  /\ counterStart = 0
  /\ counterCards = 1
  /\ counterIndex = 1
  /\ settleTransform = ""
  /\ settleEventsLeft = 0
  /\ settleReturned = 0
  /\ settleWasSkewed = FALSE

\* After initMagnetic() on a page whose markup has one [data-magnetic]
\* element, on a device without touch.
InitMagnetic ==
  /\ scroll = 0
  /\ prevScroll = 0
  /\ scrollVelocity = 0
  /\ revealStart = [i \in Reveals |-> 0]
  /\ revealState = [i \in Reveals |-> "Before"]
  /\ revealSeen = [i \in Reveals |-> 0]
  /\ enterFired = [i \in Reveals |-> 0]
  /\ leaveBackFired = [i \in Reveals |-> 0]
  /\ updateCalls = 0
  /\ trackW = 0
  /\ viewW = 1
  /\ pinLength = 0
  /\ tweenEndX = 0
  /\ pinProgress = 0
  /\ tweenProgress = 0
  /\ trackXScaled = 0
  /\ timers = {}
  /\ resizeTimeout = -1
  /\ sinceResize = -1
  /\ refreshesSinceResize = 0
  /\ lastRefreshGap = -1
  /\ burstResizes = 0
  /\ pagePhase = "loaded"
  /\ docHidden = FALSE
  /\ now = 0
  /\ env = NoEnv
  /\ shaderExit = "uninit"
  /\ heroStylePos0 = ""
  /\ heroStylePos = ""
  /\ canvasInHero = FALSE
  /\ canvasesCreated = 0
  /\ shaderListeners = {}
  /\ shaderRafPending = 0
  /\ shaderRafId = "null"
  /\ shaderIsVisible = TRUE
  /\ startTime = 0
  /\ uTime = -1
  /\ lastDeltaTime = 0
  /\ lastGapHidden = 0
  /\ lastGapWall = 0
  /\ hiddenAccum = 0
  /\ lastDrawAt = 0
  /\ framesDrawn = 0
  /\ cleanupCalls = 0
  /\ rendersAfterCleanup = 0
  /\ cursorOn = FALSE
  /\ cursorRafPending = 0
  /\ cursorRafId = "null"
  /\ cursorIsVisible = TRUE
  /\ hscrollMode = "none"
  /\ dom = NoDom
  /\ invoked = <<>>
  /\ threwAt = "none"
  /\ handlerThrew = "none"
  /\ activeDot = 0
  /\ hscrollSnap = {}
  /\ prefersReducedMotion = FALSE
  /\ fontsPending = FALSE
  /\ animSets = {}
  /\ animEffects = {}
  /\ prefAtReady = FALSE
  /\ contentLength = 1
  /\ requestsLeft = 0
  /\ enginePos = 0
  /\ animFrom = 0
  /\ animTo = 0
  /\ animElapsed = 0
  /\ animActive = FALSE
  /\ easeValue = 0
  /\ lastRequestRaw = 0
  /\ lastHref = <<>>
  /\ clickThrew = FALSE
  /\ clickScrollTo = FALSE
  /\ skewNum = 0
  /\ skewFrames = 0
  /\ targetNum = 0
  /\ velocityRead = 0
  /\ styleWrites = 0
  /\ lerpKind = "skew"
  /\ lerpTarget = 0
  /\ lerpNum = 0
  /\ lerpN = 0
  /\ lerpSteady = TRUE
  /\ lenisLimit = PageLength
  /\ lenisResizes = 0
  /\ lastScrollY = 0
  /\ magClosures = InitMagneticClosures(<<"button">>)
  /\ activeItems = {}
  /\ initAllModulesCalls = 0
  /\ counterOpacity = "0"
  /\ settleSkew = 0
  /\ isHidden = FALSE
  /\ ticking = FALSE
  /\ headerRafQueue = <<>>
  /\ samplesThisFrame = 0
  /\ lastSample = -1
  /\ prevLastScrollY = 0
  /\ prevIsHidden = FALSE
  /\ isHidden = FALSE
  /\ ticking = FALSE
  /\ headerRafQueue = <<>>
  /\ samplesThisFrame = 0
  /\ lastSample = -1
  /\ prevLastScrollY = 0
  /\ prevIsHidden = FALSE
  /\ magneticEls = <<"button">>
  /\ magTransforms = [el \in MagElements |-> {}]
  /\ pointerEventsLeft = MaxPointerEvents
  /\ addMagneticCalls = 0
  /\ ariaExpanded = {}
  /\ ariaShown = {}
  /\ accContent = {}
  /\ accFocus = -1
  /\ lastToggle = [item |-> -1, wasActive |-> FALSE]
  /\ fontsResolved = FALSE
  /\ imgCount = 0
  /\ imgLoaded = 0
  /\ imgWaiting = 0
  /\ imagesResolved = FALSE
  /\ fallbackArmed = FALSE
  /\ gaugeStarted = FALSE
  /\ gaugeFrames = 0
  /\ gaugeNow = 1
  /\ psiStart = -1
  /\ psiProgress = 0
  /\ currentPSI = 0
  /\ prevPSI = 0
  /\ counterState = "Before"
  /\ counterStart = 0
  /\ counterCards = 1
  /\ counterIndex = 1
  /\ settleTransform = ""
  /\ settleEventsLeft = 0
  /\ settleReturned = 0
  /\ settleWasSkewed = FALSE

\* After initAccordion(): every header gets aria-expanded "false" and every
\* content aria-hidden "true"; the class "active" stays as the markup had it.
InitAccordion ==
  /\ scroll = 0
  /\ prevScroll = 0
  /\ scrollVelocity = 0
  /\ revealStart = [i \in Reveals |-> 0]
  /\ revealState = [i \in Reveals |-> "Before"]
  /\ revealSeen = [i \in Reveals |-> 0]
  /\ enterFired = [i \in Reveals |-> 0]
  /\ leaveBackFired = [i \in Reveals |-> 0]
  /\ updateCalls = 0
  /\ trackW = 0
  /\ viewW = 1
  /\ pinLength = 0
  /\ tweenEndX = 0
  /\ pinProgress = 0
  /\ tweenProgress = 0
  /\ trackXScaled = 0
  /\ timers = {}
  /\ resizeTimeout = -1
  /\ sinceResize = -1
  /\ refreshesSinceResize = 0
  /\ lastRefreshGap = -1
  /\ burstResizes = 0
  /\ pagePhase = "loaded"
  /\ docHidden = FALSE
  /\ now = 0
  /\ env = NoEnv
  /\ shaderExit = "uninit"
  /\ heroStylePos0 = ""
  /\ heroStylePos = ""
  /\ canvasInHero = FALSE
  /\ canvasesCreated = 0
  /\ shaderListeners = {}
  /\ shaderRafPending = 0
  /\ shaderRafId = "null"
  /\ shaderIsVisible = TRUE
  /\ startTime = 0
  /\ uTime = -1
  /\ lastDeltaTime = 0
  /\ lastGapHidden = 0
  /\ lastGapWall = 0
  /\ hiddenAccum = 0
  /\ lastDrawAt = 0
  /\ framesDrawn = 0
  /\ cleanupCalls = 0
  /\ rendersAfterCleanup = 0
  /\ cursorOn = FALSE
  /\ cursorRafPending = 0
  /\ cursorRafId = "null"
  /\ cursorIsVisible = TRUE
  /\ hscrollMode = "none"
  /\ dom = NoDom
  /\ invoked = <<>>
  /\ threwAt = "none"
  /\ handlerThrew = "none"
  /\ activeDot = 0
  /\ hscrollSnap = {}
  /\ prefersReducedMotion = FALSE
  /\ fontsPending = FALSE
  /\ animSets = {}
  /\ animEffects = {}
  /\ prefAtReady = FALSE
  /\ contentLength = 1
  /\ requestsLeft = 0
  /\ enginePos = 0
  /\ animFrom = 0
  /\ animTo = 0
  /\ animElapsed = 0
  /\ animActive = FALSE
  /\ easeValue = 0
  /\ lastRequestRaw = 0
  /\ lastHref = <<>>
  /\ clickThrew = FALSE
  /\ clickScrollTo = FALSE
  /\ skewNum = 0
  /\ skewFrames = 0
  /\ targetNum = 0
  /\ velocityRead = 0
  /\ styleWrites = 0
  /\ lerpKind = "skew"
  /\ lerpTarget = 0
  /\ lerpNum = 0
  /\ lerpN = 0
  /\ lerpSteady = TRUE
  /\ lenisLimit = PageLength
  /\ lenisResizes = 0
  /\ lastScrollY = 0
  /\ magClosures = <<>>
  /\ activeItems \in SUBSET AccordionItems
  /\ initAllModulesCalls = 0
  /\ counterOpacity = "0"
  /\ settleSkew = 0
  /\ isHidden = FALSE
  /\ ticking = FALSE
  /\ headerRafQueue = <<>>
  /\ samplesThisFrame = 0
  /\ lastSample = -1
  /\ prevLastScrollY = 0
  /\ prevIsHidden = FALSE
  /\ isHidden = FALSE
  /\ ticking = FALSE
  /\ headerRafQueue = <<>>
  /\ samplesThisFrame = 0
  /\ lastSample = -1
  /\ prevLastScrollY = 0
  /\ prevIsHidden = FALSE
  /\ magneticEls = <<>>
  /\ magTransforms = [el \in MagElements |-> {}]
  /\ pointerEventsLeft = 0
  /\ addMagneticCalls = 0
  /\ ariaExpanded = {}
  /\ ariaShown = {}
  /\ accContent \in SUBSET AccordionItems
  /\ accFocus = -1
  /\ lastToggle = [item |-> -1, wasActive |-> FALSE]
  /\ fontsResolved = FALSE
  /\ imgCount = 0
  /\ imgLoaded = 0
  /\ imgWaiting = 0
  /\ imagesResolved = FALSE
  /\ fallbackArmed = FALSE
  /\ gaugeStarted = FALSE
  /\ gaugeFrames = 0
  /\ gaugeNow = 1
  /\ psiStart = -1
  /\ psiProgress = 0
  /\ currentPSI = 0
  /\ prevPSI = 0
  /\ counterState = "Before"
  /\ counterStart = 0
  /\ counterCards = 1
  /\ counterIndex = 1
  /\ settleTransform = ""
  /\ settleEventsLeft = 0
  /\ settleReturned = 0
  /\ settleWasSkewed = FALSE

\* After initLoader(): loadCriticalImages has counted the images that were
\* already complete and armed its fallback; nothing has resolved yet.
InitLoader ==
  /\ scroll = 0
  /\ prevScroll = 0
  /\ scrollVelocity = 0
  /\ revealStart = [i \in Reveals |-> 0]
  /\ revealState = [i \in Reveals |-> "Before"]
  /\ revealSeen = [i \in Reveals |-> 0]
  /\ enterFired = [i \in Reveals |-> 0]
  /\ leaveBackFired = [i \in Reveals |-> 0]
  /\ updateCalls = 0
  /\ trackW = 0
  /\ viewW = 1
  /\ pinLength = 0
  /\ tweenEndX = 0
  /\ pinProgress = 0
  /\ tweenProgress = 0
  /\ trackXScaled = 0
  /\ timers = {}
  /\ resizeTimeout = -1
  /\ sinceResize = -1
  /\ refreshesSinceResize = 0
  /\ lastRefreshGap = -1
  /\ burstResizes = 0
  /\ pagePhase = "loading"
  /\ docHidden = FALSE
  /\ now = 0
  /\ env = NoEnv
  /\ shaderExit = "uninit"
  /\ heroStylePos0 = ""
  /\ heroStylePos = ""
  /\ canvasInHero = FALSE
  /\ canvasesCreated = 0
  /\ shaderListeners = {}
  /\ shaderRafPending = 0
  /\ shaderRafId = "null"
  /\ shaderIsVisible = TRUE
  /\ startTime = 0
  /\ uTime = -1
  /\ lastDeltaTime = 0
  /\ lastGapHidden = 0
  /\ lastGapWall = 0
  /\ hiddenAccum = 0
  /\ lastDrawAt = 0
  /\ framesDrawn = 0
  /\ cleanupCalls = 0
  /\ rendersAfterCleanup = 0
  /\ cursorOn = FALSE
  /\ cursorRafPending = 0
  /\ cursorRafId = "null"
  /\ cursorIsVisible = TRUE
  /\ hscrollMode = "none"
  /\ dom = NoDom
  /\ invoked = <<>>
  /\ threwAt = "none"
  /\ handlerThrew = "none"
  /\ activeDot = 0
  /\ hscrollSnap = {}
  /\ prefersReducedMotion = FALSE
  /\ fontsPending = FALSE
  /\ animSets = {}
  /\ animEffects = {}
  /\ prefAtReady = FALSE
  /\ contentLength = 1
  /\ requestsLeft = 0
  /\ enginePos = 0
  /\ animFrom = 0
  /\ animTo = 0
  /\ animElapsed = 0
  /\ animActive = FALSE
  /\ easeValue = 0
  /\ lastRequestRaw = 0
  /\ lastHref = <<>>
  /\ clickThrew = FALSE
  /\ clickScrollTo = FALSE
  /\ skewNum = 0
  /\ skewFrames = 0
  /\ targetNum = 0
  /\ velocityRead = 0
  /\ styleWrites = 0
  /\ lerpKind = "skew"
  /\ lerpTarget = 0
  /\ lerpNum = 0
  /\ lerpN = 0
  /\ lerpSteady = TRUE
  /\ lenisLimit = PageLength
  /\ lenisResizes = 0
  /\ lastScrollY = 0
  /\ magClosures = <<>>
  /\ activeItems = {}
  /\ initAllModulesCalls = 0
  /\ counterOpacity = "0"
  /\ settleSkew = 0
  /\ isHidden = FALSE
  /\ ticking = FALSE
  /\ headerRafQueue = <<>>
  /\ samplesThisFrame = 0
  /\ lastSample = -1
  /\ prevLastScrollY = 0
  /\ prevIsHidden = FALSE
  /\ isHidden = FALSE
  /\ ticking = FALSE
  /\ headerRafQueue = <<>>
  /\ samplesThisFrame = 0
  /\ lastSample = -1
  /\ prevLastScrollY = 0
  /\ prevIsHidden = FALSE
  /\ magneticEls = <<>>
  /\ magTransforms = [el \in MagElements |-> {}]
  /\ pointerEventsLeft = 0
  /\ addMagneticCalls = 0
  /\ ariaExpanded = {}
  /\ ariaShown = {}
  /\ accContent = {}
  /\ accFocus = -1
  /\ lastToggle = [item |-> -1, wasActive |-> FALSE]
  /\ fontsResolved = FALSE
  /\ imgCount \in 0..MaxImages
  /\ imgLoaded \in 0..imgCount
  /\ imgWaiting = imgCount - imgLoaded
  /\ imagesResolved = (imgLoaded >= ImageTotal(imgCount))
  /\ fallbackArmed = TRUE
  /\ gaugeStarted = FALSE
  /\ gaugeFrames = 0
  /\ gaugeNow = 1
  /\ psiStart = -1
  /\ psiProgress = 0
  /\ currentPSI = 0
  /\ prevPSI = 0
  /\ counterState = "Before"
  /\ counterStart = 0
  /\ counterCards = 1
  /\ counterIndex = 1
  /\ settleTransform = ""
  /\ settleEventsLeft = 0
  /\ settleReturned = 0
  /\ settleWasSkewed = FALSE

\* After initDesktopScroll() at the top of the page: the counter is in the
\* document with opacity 0 and shows 01.
InitCounter ==
  /\ scroll = 0
  /\ prevScroll = 0
  /\ scrollVelocity = 0
  /\ revealStart = [i \in Reveals |-> 0]
  /\ revealState = [i \in Reveals |-> "Before"]
  /\ revealSeen = [i \in Reveals |-> 0]
  /\ enterFired = [i \in Reveals |-> 0]
  /\ leaveBackFired = [i \in Reveals |-> 0]
  /\ updateCalls = 0
  /\ trackW \in 0..MaxWidth
  /\ viewW \in 1..MaxWidth
  /\ pinLength = 0
  /\ tweenEndX = 0
  /\ pinProgress = 0
  /\ tweenProgress = 0
  /\ trackXScaled = 0
  /\ timers = {}
  /\ resizeTimeout = -1
  /\ sinceResize = -1
  /\ refreshesSinceResize = 0
  /\ lastRefreshGap = -1
  /\ burstResizes = 0
  /\ pagePhase = "loaded"
  /\ docHidden = FALSE
  /\ now = 0
  /\ env = NoEnv
  /\ shaderExit = "uninit"
  /\ heroStylePos0 = ""
  /\ heroStylePos = ""
  /\ canvasInHero = FALSE
  /\ canvasesCreated = 0
  /\ shaderListeners = {}
  /\ shaderRafPending = 0
  /\ shaderRafId = "null"
  /\ shaderIsVisible = TRUE
  /\ startTime = 0
  /\ uTime = -1
  /\ lastDeltaTime = 0
  /\ lastGapHidden = 0
  /\ lastGapWall = 0
  /\ hiddenAccum = 0
  /\ lastDrawAt = 0
  /\ framesDrawn = 0
  /\ cleanupCalls = 0
  /\ rendersAfterCleanup = 0
  /\ cursorOn = FALSE
  /\ cursorRafPending = 0
  /\ cursorRafId = "null"
  /\ cursorIsVisible = TRUE
  /\ hscrollMode = "desktop"
  /\ dom = NoDom
  /\ invoked = <<>>
  /\ threwAt = "none"
  /\ handlerThrew = "none"
  /\ activeDot = 0
  /\ hscrollSnap = {}
  /\ prefersReducedMotion = FALSE
  /\ fontsPending = FALSE
  /\ animSets = {}
  /\ animEffects = {}
  /\ prefAtReady = FALSE
  /\ contentLength = 1
  /\ requestsLeft = 0
  /\ enginePos = 0
  /\ animFrom = 0
  /\ animTo = 0
  /\ animElapsed = 0
  /\ animActive = FALSE
  /\ easeValue = 0
  /\ lastRequestRaw = 0
  /\ lastHref = <<>>
  /\ clickThrew = FALSE
  /\ clickScrollTo = FALSE
  /\ skewNum = 0
  /\ skewFrames = 0
  /\ targetNum = 0
  /\ velocityRead = 0
  /\ styleWrites = 0
  /\ lerpKind = "skew"
  /\ lerpTarget = 0
  /\ lerpNum = 0
  /\ lerpN = 0
  /\ lerpSteady = TRUE
  /\ lenisLimit = PageLength
  /\ lenisResizes = 0
  /\ lastScrollY = 0
  /\ magClosures = <<>>
  /\ activeItems = {}
  /\ initAllModulesCalls = 0
  /\ counterOpacity = "0"
  /\ settleSkew = 0
  /\ isHidden = FALSE
  /\ ticking = FALSE
  /\ headerRafQueue = <<>>
  /\ samplesThisFrame = 0
  /\ lastSample = -1
  /\ prevLastScrollY = 0
  /\ prevIsHidden = FALSE
  /\ isHidden = FALSE
  /\ ticking = FALSE
  /\ headerRafQueue = <<>>
  /\ samplesThisFrame = 0
  /\ lastSample = -1
  /\ prevLastScrollY = 0
  /\ prevIsHidden = FALSE
  /\ magneticEls = <<>>
  /\ magTransforms = [el \in MagElements |-> {}]
  /\ pointerEventsLeft = 0
  /\ addMagneticCalls = 0
  /\ ariaExpanded = {}
  /\ ariaShown = {}
  /\ accContent = {}
  /\ accFocus = -1
  /\ lastToggle = [item |-> -1, wasActive |-> FALSE]
  /\ fontsResolved = FALSE
  /\ imgCount = 0
  /\ imgLoaded = 0
  /\ imgWaiting = 0
  /\ imagesResolved = FALSE
  /\ fallbackArmed = FALSE
  /\ gaugeStarted = FALSE
  /\ gaugeFrames = 0
  /\ gaugeNow = 1
  /\ psiStart = -1
  /\ psiProgress = 0
  /\ currentPSI = 0
  /\ prevPSI = 0
  /\ counterState = "Before"
  /\ counterStart \in 0..MaxStart
  /\ counterCards \in 1..NumCards
  /\ counterIndex = 1
  /\ settleTransform = ""
  /\ settleEventsLeft = 0
  /\ settleReturned = 0
  /\ settleWasSkewed = FALSE

\* After initAnimations(): no scroll event yet, the skew proxy at 0.
InitSettle ==
  /\ scroll = 0
  /\ prevScroll = 0
  /\ scrollVelocity = 0
  /\ revealStart = [i \in Reveals |-> 0]
  /\ revealState = [i \in Reveals |-> "Before"]
  /\ revealSeen = [i \in Reveals |-> 0]
  /\ enterFired = [i \in Reveals |-> 0]
  /\ leaveBackFired = [i \in Reveals |-> 0]
  /\ updateCalls = 0
  /\ trackW = 0
  /\ viewW = 1
  /\ pinLength = 0
  /\ tweenEndX = 0
  /\ pinProgress = 0
  /\ tweenProgress = 0
  /\ trackXScaled = 0
  /\ timers = {}
  /\ resizeTimeout = -1
  /\ sinceResize = -1
  /\ refreshesSinceResize = 0
  /\ lastRefreshGap = -1
  /\ burstResizes = 0
  /\ pagePhase = "loaded"
  /\ docHidden = FALSE
  /\ now = 0
  /\ env = NoEnv
  /\ shaderExit = "uninit"
  /\ heroStylePos0 = ""
  /\ heroStylePos = ""
  /\ canvasInHero = FALSE
  /\ canvasesCreated = 0
  /\ shaderListeners = {}
  /\ shaderRafPending = 0
  /\ shaderRafId = "null"
  /\ shaderIsVisible = TRUE
  /\ startTime = 0
  /\ uTime = -1
  /\ lastDeltaTime = 0
  /\ lastGapHidden = 0
  /\ lastGapWall = 0
  /\ hiddenAccum = 0
  /\ lastDrawAt = 0
  /\ framesDrawn = 0
  /\ cleanupCalls = 0
  /\ rendersAfterCleanup = 0
  /\ cursorOn = FALSE
  /\ cursorRafPending = 0
  /\ cursorRafId = "null"
  /\ cursorIsVisible = TRUE
  /\ hscrollMode = "none"
  /\ dom = NoDom
  /\ invoked = <<>>
  /\ threwAt = "none"
  /\ handlerThrew = "none"
  /\ activeDot = 0
  /\ hscrollSnap = {}
  /\ prefersReducedMotion = FALSE
  /\ fontsPending = FALSE
  /\ animSets = {}
  /\ animEffects = {}
  /\ prefAtReady = FALSE
  /\ contentLength = 1
  /\ requestsLeft = 0
  /\ enginePos = 0
  /\ animFrom = 0
  /\ animTo = 0
  /\ animElapsed = 0
  /\ animActive = FALSE
  /\ easeValue = 0
  /\ lastRequestRaw = 0
  /\ lastHref = <<>>
  /\ clickThrew = FALSE
  /\ clickScrollTo = FALSE
  /\ skewNum = 0
  /\ skewFrames = 0
  /\ targetNum = 0
  /\ velocityRead = 0
  /\ styleWrites = 0
  /\ lerpKind = "skew"
  /\ lerpTarget = 0
  /\ lerpNum = 0
  /\ lerpN = 0
  /\ lerpSteady = TRUE
  /\ lenisLimit = PageLength
  /\ lenisResizes = 0
  /\ lastScrollY = 0
  /\ magClosures = <<>>
  /\ activeItems = {}
  /\ initAllModulesCalls = 0
  /\ counterOpacity = "0"
  /\ settleSkew = 0
  /\ isHidden = FALSE
  /\ ticking = FALSE
  /\ headerRafQueue = <<>>
  /\ samplesThisFrame = 0
  /\ lastSample = -1
  /\ prevLastScrollY = 0
  /\ prevIsHidden = FALSE
  /\ isHidden = FALSE
  /\ ticking = FALSE
  /\ headerRafQueue = <<>>
  /\ samplesThisFrame = 0
  /\ lastSample = -1
  /\ prevLastScrollY = 0
  /\ prevIsHidden = FALSE
  /\ magneticEls = <<>>
  /\ magTransforms = [el \in MagElements |-> {}]
  /\ pointerEventsLeft = 0
  /\ addMagneticCalls = 0
  /\ ariaExpanded = {}
  /\ ariaShown = {}
  /\ accContent = {}
  /\ accFocus = -1
  /\ lastToggle = [item |-> -1, wasActive |-> FALSE]
  /\ fontsResolved = FALSE
  /\ imgCount = 0
  /\ imgLoaded = 0
  /\ imgWaiting = 0
  /\ imagesResolved = FALSE
  /\ fallbackArmed = FALSE
  /\ gaugeStarted = FALSE
  /\ gaugeFrames = 0
  /\ gaugeNow = 1
  /\ psiStart = -1
  /\ psiProgress = 0
  /\ currentPSI = 0
  /\ prevPSI = 0
  /\ counterState = "Before"
  /\ counterStart = 0
  /\ counterCards = 1
  /\ counterIndex = 1
  /\ settleTransform = ""
  /\ settleEventsLeft = MaxScrollEvents
  /\ settleReturned = 0
  /\ settleWasSkewed = FALSE

NextTrigger == \E p \in 0..MaxScroll : LenisTick(p)

NextHScroll ==
  \/ \E w \in 0..MaxWidth, v \in 1..MaxWidth : Resize(w, v)
  \/ AdvanceClock
  \/ ResizeTimerFires
  \/ \E k \in 0..ProgressSteps : PinScroll(k)
  \/ ScrubStep

NextPage ==
  \/ \E e \in Envs : InitAllModules(e, FullDom)
  \/ \E h \in BOOLEAN : VisibilityChange(h)
  \/ AdvanceTime
  \/ ShaderFrame
  \/ CursorFrame
  \/ Cleanup

NextBoot ==
  \/ LoaderCompletes
  \/ \E i \in 0..(NumCards - 1) : ContainerScroll(i)
  \/ \E b \in BOOLEAN : PreferenceChange(b)
  \/ FontsReady

NextEngine ==
  \/ \E h \in Hrefs : AnchorClick(h)
  \/ \E delta \in {-1, 1} : WheelInput(delta)
  \/ EngineTick

NextMotion == \E p \in MotionPositions : TickerFrame(p)

NextLerp == \E release \in BOOLEAN : LerpFrame(release)

NextHeader ==
  \/ \E y \in HeaderSamples : HeaderScrollEvent(y)
  \/ HeaderFrame

NextMagnetic ==
  \/ \E ev \in {"mouseenter", "mousemove", "mouseleave"},
        off \in PointerOffsets : PointerEvent("button", ev, off)
  \/ MagneticFrame

NextAddMagnetic ==
  \/ \E el \in MagElements, ev \in {"mouseenter", "mousemove", "mouseleave"},
        off \in PointerOffsets : PointerEvent(el, ev, off)
  \/ MagneticFrame
  \/ AddMagnetic("added")

NextAccordion ==
  \/ \E i \in AccordionItems : AccordionToggle(i)
  \/ \E i \in AccordionItems,
        key \in {"ArrowDown", "ArrowUp", "Home", "End"} : AccordionKey(i, key)

NextLoader ==
  \/ LoaderFontsReady
  \/ ImageSettles
  \/ FallbackTimeout
  \/ GaugeStart
  \/ GaugeTick
  \/ AnimatePSI
  \/ \E e \in {x \in Envs : x.hero /\ x.testGL /\ x.ctxGL /\ x.compileOK
                             /\ x.linkOK /\ x.heroPos = ""} :
       InitAllModules(e, FullDom)

NextCounter == \E p \in 0..MaxScroll : CounterTick(p)

NextSettle ==
  \/ \E p \in {0, MaxScroll} : SettleScrollEvent(p)
  \/ SettleFrame
  \/ GetScrollVelocity

SpecTrigger == InitTrigger /\ [][NextTrigger]_vars
SpecHScroll == InitHScroll /\ [][NextHScroll]_vars
SpecPage == InitPage /\ [][NextPage]_vars
SpecBoot == InitBoot /\ [][NextBoot]_vars
SpecEngine == InitEngine /\ [][NextEngine]_vars /\ WF_vars(EngineTick)
SpecMotion == InitMotion /\ [][NextMotion]_vars
SpecLerp == InitLerp /\ [][NextLerp]_vars
SpecHeader == InitHeader /\ [][NextHeader]_vars
SpecMagnetic ==
  InitMagnetic /\ [][NextMagnetic]_vars /\ WF_vars(MagneticFrame)
SpecAddMagnetic == InitMagnetic /\ [][NextAddMagnetic]_vars
SpecAccordion == InitAccordion /\ [][NextAccordion]_vars
SpecLoader == InitLoader /\ [][NextLoader]_vars
SpecCounter == InitCounter /\ [][NextCounter]_vars
SpecSettle == InitSettle /\ [][NextSettle]_vars /\ WF_vars(SettleFrame)


(***************************************************************************)
(* Properties.                                                             *)
(***************************************************************************)
CrossedForward(i) == prevScroll <= revealStart[i] /\ scroll > revealStart[i]
CrossedBackward(i) == prevScroll > revealStart[i] /\ scroll <= revealStart[i]

\* C1: in every scroll-engine tick, each reveal trigger with start S starts
\* its enter tween exactly once if the position crossed S moving forward in
\* that tick and not at all otherwise, and starts its leave-back tween
\* exactly once if the position receded back past S and not at all
\* otherwise -- once per edge, although the tick calls ScrollTrigger.update
\* from both Lenis listeners.
C1_RevealOncePerEdge ==
  \A i \in Reveals :
    /\ enterFired[i] = IF CrossedForward(i) THEN 1 ELSE 0
    /\ leaveBackFired[i] = IF CrossedBackward(i) THEN 1 ELSE 0

C1_Witness ==
  /\ updateCalls = 2
  /\ \E i \in Reveals : CrossedForward(i) /\ enterFired[i] = 1
  /\ \E j \in Reveals : scroll > prevScroll /\ prevScroll > revealStart[j]
                        /\ enterFired[j] = 0

\* C2: with the measured geometry settled (no refresh pending) and track
\* width W greater than viewport width V, the pinned trigger's interval has
\* length W - V and the track offset at tween progress p is -(W - V) * p,
\* so 0 at progress 0 and -(W - V) at progress 1.
C2_PinLengthAndOffset ==
  (timers = {} /\ trackW > viewW) =>
    /\ pinLength = trackW - viewW
    /\ trackXScaled = -(trackW - viewW) * tweenProgress
    /\ (tweenProgress = 0 => trackXScaled = 0)
    /\ (tweenProgress = ProgressSteps
          => trackXScaled = -(trackW - viewW) * ProgressSteps)

C2_Witness ==
  /\ timers = {}
  /\ trackW > viewW
  /\ refreshesSinceResize = 1
  /\ tweenProgress = ProgressSteps
  /\ trackXScaled = -(trackW - viewW) * ProgressSteps

\* C3: ScrollTrigger.refresh() runs at most once after a resize event, never
\* sooner than 250 ms after the most recent resize event, and once the
\* resize timeout is no longer pending it has run exactly once since the
\* last resize event of the burst; until then exactly one timeout is pending.
C3_OneRefreshPerSettle ==
  /\ refreshesSinceResize <= 1
  /\ (lastRefreshGap # -1 => lastRefreshGap >= ResizeDebounceMs)
  /\ (sinceResize # -1 /\ timers = {} => refreshesSinceResize = 1)
  /\ (sinceResize # -1 /\ refreshesSinceResize = 0 => Cardinality(timers) = 1)

C3_Witness ==
  /\ burstResizes >= 2
  /\ refreshesSinceResize = 1
  /\ lastRefreshGap >= ResizeDebounceMs
  /\ timers = {}
  /\ pinLength = trackW - viewW
  /\ pinLength > 0

\* C4: when the reduced-motion preference is set as initHeroShader runs, it
\* returns null at its first check: no canvas is created or inserted, no
\* listener is registered and no frame is requested or drawn.
C4_ReducedMotionNoShader ==
  (pagePhase = "ready" /\ env.reducedMotion) =>
    /\ shaderExit = "reducedMotion"
    /\ ReturnedHandles = {}
    /\ canvasesCreated = 0
    /\ ~canvasInHero
    /\ shaderListeners = {}
    /\ shaderRafPending = 0
    /\ framesDrawn = 0

C4_Witness ==
  /\ pagePhase = "ready"
  /\ env.reducedMotion /\ env.hero /\ env.testGL /\ env.ctxGL
  /\ env.compileOK /\ env.linkOK
  /\ shaderExit = "reducedMotion"
  /\ now > 0

\* C5: whenever initHeroShader returns null at a capability check, it has
\* left nothing behind: no canvas in #hero, hero.style unchanged, no
\* listener and no frame callback.
C5_CapabilityFailureNoSideEffects ==
  shaderExit \in CapabilityExits =>
    /\ ~canvasInHero
    /\ heroStylePos = heroStylePos0
    /\ shaderListeners = {}
    /\ shaderRafPending = 0

\* C6: once cleanup has been called, no shader frame is pending, render()
\* does not run again, the resize and mousemove listeners are gone and the
\* canvas is out of #hero.
C6_CleanupStopsShader ==
  cleanupCalls > 0 =>
    /\ shaderRafPending = 0
    /\ rendersAfterCleanup = 0
    /\ shaderListeners \cap {"resize", "mousemove"} = {}
    /\ ~canvasInHero

C6_Witness ==
  /\ cleanupCalls = 1
  /\ framesDrawn = 2
  /\ docHidden
  /\ ~shaderIsVisible
  /\ now = MaxClock

\* C7: every frame callback, listener, pinned trigger and created node a
\* component holds registered can be revoked through a handle the component
\* returned.
C7_EverythingRevocable ==
  \A r \in Registered : \E h \in ReturnedHandles : r \in Revokes(h)

C9_NoFramePendingWhileHidden ==
  /\ (cursorOn /\ ~cursorIsVisible) => cursorRafPending = 0
  /\ (shaderExit = "running" /\ ~shaderIsVisible) => shaderRafPending = 0

\* C10: between two consecutive drawn frames the time uniform advances by
\* no more than the time the page was visible: the hidden duration is not
\* part of the difference.
C10_NoTimeJumpOnResume ==
  framesDrawn = 2 => lastDeltaTime <= lastGapWall - lastGapHidden

\* C11: for every track width W and viewport width V, W <= V and W = 0
\* included, the scroll distance is clamped to zero: the pin interval length
\* handed to ScrollTrigger is never negative and the track's target x offset
\* (and the offset rendered from it) is never positive.
C11_ScrollDistanceClamped ==
  /\ pinLength >= 0
  /\ tweenEndX <= 0
  /\ trackXScaled <= 0

\* initHorizontalScroll was called by initAllModules.
HorizontalScrollCalled == WasInvoked(invoked, "initHorizontalScroll")

\* What the two modes of the gallery register.
PinnedTakeover == {<<"hscroll", "pin">>}
NativeScrolling == {<<"hscroll", "dots">>, <<"hscroll", "scroll">>}

\* The mode the viewport and the device call for.
ModeByViewportAndTouch ==
  /\ (hscrollMode = "desktop")
       <=> (env.innerWidth > MobileMaxWidthPx /\ ~env.touch)
  /\ (hscrollMode = "mobile")
       <=> (env.innerWidth <= MobileMaxWidthPx \/ env.touch)
  /\ (hscrollMode = "desktop"
        => PinnedTakeover \subseteq Registered
           /\ NativeScrolling \cap Registered = {})
  /\ (hscrollMode = "mobile"
        => PinnedTakeover \cap Registered = {}
           /\ NativeScrolling \subseteq Registered
           /\ hscrollSnap = Cards(dom))

\* C12 (as claimed): every call of initHorizontalScroll initialises exactly
\* one mode: the pinned takeover if and only if the viewport is wider than
\* 768px and the device is not touch-capable, otherwise native scrolling
\* with snap alignment on every card and the dot indicator.
C12_OneModePerCall ==
  HorizontalScrollCalled =>
    /\ hscrollMode \in {"desktop", "mobile"}
    /\ ModeByViewportAndTouch

\* C12 (amended): a call of initHorizontalScroll that finds the section, the
\* container and the track initialises exactly one mode, the pinned
\* takeover if and only if the viewport is wider than 768px and the device
\* is not touch-capable, otherwise native scrolling with snap alignment on
\* every card and the dot indicator; a call that misses one of the three
\* elements initialises neither.
C12_OneModePerCallWithGallery ==
  HorizontalScrollCalled =>
    /\ (dom.hscroll # "absent"
          => hscrollMode \in {"desktop", "mobile"} /\ ModeByViewportAndTouch)
    /\ (dom.hscroll = "absent"
          => hscrollMode = "none"
             /\ (PinnedTakeover \cup NativeScrolling) \cap Registered = {})

C12_Witness ==
  /\ HorizontalScrollCalled
  /\ hscrollMode = "mobile"
  /\ env.innerWidth > MobileMaxWidthPx
  /\ env.touch
  /\ hscrollSnap = 1..NumCards
  /\ activeDot = NumCards - 1

\* C13: once initAllModules has been called, every one of its eight
\* initialisers has been invoked and page initialisation has completed,
\* whichever of them threw.
C13_InitFailureIsolated ==
  pagePhase \in {"ready", "initFailed"} =>
    /\ \A i \in 1..Len(ModuleOrder) : WasInvoked(invoked, ModuleOrder[i])
    /\ pagePhase = "ready"

\* C14: with any expected element absent -- an accordion item without its
\* header, a #cursor without its dot or outline, no #loader, a gallery
\* without cards -- the entry points and the listeners they installed run
\* without throwing.
C14_MissingElementsNoThrow ==
  /\ threwAt = "none"
  /\ handlerThrew = "none"

\* C15: the engine's position always stays within [0, contentLength] and
\* between the position the running animation started from and its target,
\* the easing value never exceeds 1, and once requests have stopped the
\* position settles on the last requested (clamped) target for good.
EngineInRange ==
  /\ 0 <= enginePos
  /\ enginePos <= contentLength * PosScale

EngineNoOvershoot ==
  /\ easeValue <= EaseScale
  /\ Min(animFrom, animTo * PosScale) <= enginePos
  /\ enginePos <= Max(animFrom, animTo * PosScale)

EngineConverged ==
  /\ ~animActive
  /\ enginePos = animTo * PosScale

C15_ScrollConverges ==
  /\ [](EngineInRange /\ EngineNoOvershoot)
  /\ <>[]EngineConverged

C15_Witness ==
  /\ requestsLeft = 0
  /\ lastRequestRaw > contentLength
  /\ animFrom % PosScale # 0
  /\ EngineConverged
  /\ enginePos = contentLength * PosScale

\* C16: in every ticker frame the skew callback reads the velocity of that
\* frame's position update, and the triggers were evaluated (by both
\* listeners) at that frame's position.
C16_FrameConsistentSnapshot ==
  skewFrames > 0 =>
    /\ velocityRead = scroll - prevScroll
    /\ scrollVelocity = scroll - prevScroll
    /\ updateCalls = 2
    /\ \A i \in Reveals : revealSeen[i] = scroll

C16_Witness ==
  /\ skewFrames >= 2
  /\ prevScroll = 1
  /\ scroll = 2
  /\ velocityRead = 1
  /\ Abs(targetNum) < 2 * SkewDen

\* C17: after a click on an anchor whose target is not found, the bare "#"
\* included, the listener has raised no exception and has issued no scrollTo
\* request.
C17_MissingTargetSilent ==
  (lastHref # <<>> /\ QuerySelector(lastHref) \notin PageIds) =>
    /\ ~clickThrew
    /\ ~clickScrollTo

\* C18: a value smoothed from 0 toward a constant target T at rate r equals
\* T * (1 - (1 - r)^N) after N frames and lies between 0 and T, for the
\* rates 0.12 and 0.15.
C18_LerpClosedForm ==
  lerpSteady =>
    LET r == LerpRate(lerpKind)
        den == r[2]^lerpN
    IN /\ lerpNum = lerpTarget * (den - (r[2] - r[1])^lerpN)
       /\ Abs(lerpNum) <= Abs(lerpTarget) * den
       /\ lerpNum * lerpTarget >= 0

C18_Witness ==
  /\ lerpSteady
  /\ lerpKind = "magnetic"
  /\ lerpN = MaxFrames
  /\ lerpTarget < 0
  /\ lerpNum < 0

\* C19: in every frame the target skew is clamp(velocity * 0.15, -2, 2), the
\* applied skew stays within [-2, 2], and element styles are written only
\* when |skew| exceeds 0.01.
C19_StyleWritesOnlyAboveThreshold ==
  skewFrames > 0 =>
    /\ targetNum = Max(-(2 * SkewDen),
                       Min(3 * (scroll - prevScroll), 2 * SkewDen))
    /\ Abs(skewNum) <= 2 * SkewDen * 25^skewFrames
    /\ (styleWrites > 0 => AboveThreshold(skewNum, skewFrames))

\* C20: initAnimations initialises exactly one animation set, the reduced
\* one if and only if reduced motion was preferred when the fonts promise
\* resolved; the reduced set fades each reveal once, opacity only, over
\* 0.3 s, and sets up none of the effects of the full set.
FullOnlyEffects ==
  {"heroOrchestration", "revealBlurOffset", "parallax", "velocitySkew",
   "footerInvert", "scrollProgress"}

C20_ReducedMotionSingleFade ==
  /\ Cardinality(animSets) <= 1
  /\ (WasInvoked(invoked, "initAnimations") /\ ~fontsPending
        => animSets = {IF prefAtReady THEN "reduced" ELSE "full"})
  /\ (fontsPending => animSets = {} /\ animEffects = {})
  /\ \A set \in animSets : animEffects = EffectsOf(set)
  /\ ("reduced" \in animSets
        => /\ "revealFade" \in animEffects
           /\ animEffects \cap FullOnlyEffects = {}
           /\ RevealOnEnter("reduced").props = {"opacity"}
           /\ RevealOnEnter("reduced").durationMs = {300}
           /\ ~RevealOnEnter("reduced").leaveBack)

C20_Witness ==
  /\ animSets = {"reduced"}
  /\ ~env.reducedMotion
  /\ prefAtReady
  /\ ~prefersReducedMotion

C22_HeaderVisibleAtTop ==
  /\ (lastSample # -1 /\ lastSample < hideThreshold) => ~isHidden
  /\ isHidden => lastSample > hideThreshold

\* C22 (amended): after handleScroll processed a sample below 100 the
\* header is not hidden, and the header is hidden only if the last processed
\* sample had a position of at least 100.
C22_HeaderVisibleBelowThreshold ==
  /\ (lastSample # -1 /\ lastSample < hideThreshold) => ~isHidden
  /\ isHidden => lastSample >= hideThreshold

C22_Witness ==
  /\ prevIsHidden
  /\ ~isHidden
  /\ lastSample = hideThreshold - 1
  /\ prevLastScrollY - lastSample < scrollDelta

\* C23: at positions of 100 or more a sample less than 10 px from the
\* recorded position changes neither the hidden state nor the recorded
\* position; the header hides only on a downward move of at least 10 px and
\* shows only on an upward move of at least 10 px or below position 100; and
\* a frame processes at most one sample.
C23_JitterGuard ==
  /\ samplesThisFrame <= 1
  /\ (lastSample >= hideThreshold
        /\ Abs(lastSample - prevLastScrollY) < scrollDelta)
       => (isHidden = prevIsHidden /\ lastScrollY = prevLastScrollY)
  /\ (isHidden /\ ~prevIsHidden)
       => lastSample - prevLastScrollY >= scrollDelta
  /\ (~isHidden /\ prevIsHidden)
       => (prevLastScrollY - lastSample >= scrollDelta
           \/ lastSample < hideThreshold)

C23_Witness ==
  /\ isHidden
  /\ prevIsHidden
  /\ lastSample > prevLastScrollY
  /\ lastSample - prevLastScrollY < scrollDelta
  /\ lastScrollY = prevLastScrollY
  /\ ticking

\* No closure has the pointer over its element.
MagneticReleased ==
  \A i \in DOMAIN magClosures : ~magClosures[i].isHovering

\* Every loop has stopped and no element or child carries x/y props.
MagneticAtRest ==
  /\ \A i \in DOMAIN magClosures :
       magClosures[i].rafId = "null" /\ magClosures[i].pending = 0
  /\ \A el \in MagElements : magTransforms[el] = {}

\* C24: under any interleaving of mouseenter, mousemove, mouseleave and
\* animation frames an element has at most one updatePosition callback
\* pending; and once the pointer has left for good the loop eventually
\* stops, rafId null, with the element's and its children's props cleared.
C24_OneCallbackAndStops ==
  /\ [](\A el \in MagElements : PendingOf(magClosures, el) <= 1)
  /\ (<>[]MagneticReleased => <>[]MagneticAtRest)

C24_Witness ==
  /\ pointerEventsLeft = 0
  /\ MagneticReleased
  /\ MagneticAtRest
  /\ magClosures[1].currentX # 0
  /\ magClosures[1].currentY # 0

\* C25: after addMagnetic(element) every element initMagnetic had already
\* initialised still has exactly one set of mouse listeners and at most one
\* updatePosition callback pending.
C25_AddMagneticLeavesOthers ==
  /\ HandlerSets("button") = 1
  /\ PendingOf(magClosures, "button") <= 1

\* C26: in the cursor follower, under any interleaving of visibilitychange
\* events (to hidden or to visible, repeated ones included) and animation
\* frames, at most one animate callback is pending, and exactly one whenever
\* the page is visible.
C26_CursorLoopNeverStalls ==
  cursorOn =>
    /\ cursorRafPending <= 1
    /\ ~docHidden => cursorRafPending = 1

C26_Witness ==
  /\ cursorOn
  /\ ~docHidden
  /\ cursorIsVisible
  /\ hiddenAccum > 0
  /\ cursorRafId = "live"
  /\ cursorRafPending = 1

\* C27: in every state, the one right after initAccordion included and
\* whatever classes the markup had, at most one item has class "active" and
\* every item's aria-expanded and aria-hidden match its class; a toggle of
\* an inactive item leaves it the only active one, a toggle of the active
\* item leaves none.
C27_AccordionExclusive ==
  /\ Cardinality(activeItems) <= 1
  /\ \A i \in AccordionItems :
       /\ i \in ariaExpanded <=> i \in activeItems
       /\ i \in accContent => (i \in ariaShown <=> i \in activeItems)
  /\ lastToggle.item # -1 =>
       activeItems = IF lastToggle.wasActive THEN {} ELSE {lastToggle.item}

\* C28: initAllModules is invoked at most once, and only after
\* document.fonts.ready and loadCriticalImages both resolved and the gauge
\* reached progress 1; the displayed PSI never decreases and stays within
\* [0, 4000]; once progress is 1 no animatePSI frame is pending.
C28_LoaderSequence ==
  /\ initAllModulesCalls <= 1
  /\ initAllModulesCalls = 1 <=> pagePhase \in {"ready", "initFailed"}
  /\ (gaugeStarted \/ pagePhase # "loading") =>
       fontsResolved /\ imagesResolved
  /\ pagePhase # "loading" => psiProgress = GaugeTicks
  /\ prevPSI <= currentPSI
  /\ currentPSI \in 0..targetPSI
  /\ psiProgress = GaugeTicks => gaugeFrames = 0 /\ currentPSI = targetPSI
  /\ gaugeFrames <= 1

C28_Witness ==
  /\ initAllModulesCalls = 1
  /\ pagePhase = "ready"
  /\ imgLoaded < ImageTotal(imgCount)
  /\ ~fallbackArmed
  /\ prevPSI > 0
  /\ prevPSI < currentPSI
  /\ currentPSI = targetPSI

SkewSettled ==
  Abs(settleSkew) <= SkewUnits \div 100 /\ settleTransform = ""

\* C30: once scroll events have stopped with a last reported velocity of
\* 0, the skew eventually is within the 0.01 threshold and from then on
\* every motion target's transform stays cleared; and scrollVelocity
\* changes in no step but a Lenis scroll event.
C30_SkewSettles ==
  /\ <>[](scrollVelocity = 0) => <>[]SkewSettled
  /\ [][scrollVelocity' # scrollVelocity =>
          settleEventsLeft' = settleEventsLeft - 1]_vars

C30_Witness ==
  /\ settleEventsLeft = 0
  /\ scrollVelocity = 0
  /\ settleWasSkewed
  /\ settleReturned # 0
  /\ SkewSettled
  /\ settleSkew # 0

====
